---------------------------- MODULE Spec2Model ----------------------------
(***************************************************************************)
(* dunnart: the polling core (poller.go) and the modules built on it.      *)
(*                                                                         *)
(* A Poller is two goroutines, the dispatch loop and the tick loop, and    *)
(* the unbuffered channel p.refresh they share with every caller of        *)
(* Refresh and UpdatePeriod.  A goroutine that reaches a select takes a    *)
(* case that can proceed at that moment and parks otherwise; a parked      *)
(* goroutine is resumed by the first event that completes one of its       *)
(* cases (a partner arriving on p.refresh, a tick, close(p.done)) and by   *)
(* no other.  Senders parked on p.refresh are served in arrival order.     *)
(***************************************************************************)
EXTENDS Integers, Sequences, FiniteSets, TLC

\* The PolledSensor slots of one module: cpu, mem and sys_info use s1 only;
\* fs and cmd hold one child per slot; wan and net use s1 for the link
\* sensor and s2 for the ip / stats sensor.
Sensors == {"s1", "s2"}

\* Module kinds, by the name each registers under.
Kinds == {"cpu", "mem", "sys_info", "fs", "cmd", "wan", "net"}

\* The modules that are one PolledSensor (they embed it).
Single == {"cpu", "mem", "sys_info"}

\* The periods a configuration gives a Poller.
ConfigPeriods == {1}

\* What arrives on <topic>/rqd/poll_period: duration strings and garbage.
Payloads == {"0s", "2s", "soon"}

\* time.ParseDuration on those payloads: [ok, d].  The duration 0 stands
\* for every duration <= 0, which ParseDuration accepts and NewTicker and
\* Ticker.Reset refuse.
ParseDuration(b) ==
  CASE b = "0s" -> [ok |-> TRUE, d |-> 0]
    [] b = "2s" -> [ok |-> TRUE, d |-> 2]
    [] OTHER -> [ok |-> FALSE, d |-> 0]

\* How many Sync calls, control messages and Close calls the environment
\* makes on the module under the poller-level specification.
MaxSync == 2
MaxMsgs == 1
MaxClose == 2

\* Under the module-level specification: the Sync and Close calls, and
\* the ticks the tickers of the module deliver between them.
ModSync == 1
ModClose == 1
ModTicks == 1

\* The handle bound by the k-th Sync is k; before that a sensor holds the
\* nil interface or StubPubSub{}.
NoHandle == [impl |-> "nil", n |-> 0]
StubPubSub == [impl |-> "StubPubSub", n |-> 0]
mqttPubSub(k) == [impl |-> "mqttPubSub", n |-> k]

NoReq == [tag |-> "none", forced |-> FALSE]

VARIABLES
  kind,      \* the module's kind
  exists,    \* exists[s]: the module holds a non-nil *PolledSensor in slot s
  period,    \* Poller.period
  done,      \* Poller.done has been closed
  sendq,     \* senders parked on Poller.refresh, in arrival order
  dpc,       \* dispatch loop: "select", "parked", "call", "wait", "exit"
  dcur,      \* the request the dispatch loop received last
  invs,      \* the callback invocations in progress
  tpc,       \* tick loop: "start", "outer", "outerParked", "inner",
             \* "innerParked", "stopping", "exit"
  ticker,    \* Poller.t: [made, period, running, pending]
  ps,        \* PolledSensor.ps
  mps,       \* the module's own handle (wan.ps, netIf.ps)
  subs,      \* subscriptions registered with the transport: <<handle, s, suffix>>
  conn,      \* the reconnect-handling task, which calls Sync
  sub,       \* the transport's message-handler task
  main,      \* the main task, which calls Close
  lim,       \* how many calls the environment still makes
  hist,      \* history: what has been accepted, started and published
  panic,     \* "none", or why the process died
  rf,        \* rf[s]: the content the refresh callback of s holds, and its
             \* last call
  cfg,       \* the daemon's configuration: [mm, prefix, macOk]
  mpc,       \* main(): [pc, i], its position and loop index
  insts,     \* the module instances the factories returned, in order
  ss,        \* main's map ss: module name -> index in insts, "" -> 0
  disco,     \* discovery.ents, as the set of its topics
  mdone,     \* main's channel done has been closed
  connect,   \* on-connect handlers parked sending on main's channel connect
  mc,        \* the transport client: [tok, link, armed, events]
  rl,        \* the reconnect-handling loop: [pc, todo, n, log]
  bh,        \* the birth-message handler: [pc, todo, online, adv, sent, pubs]
  dlim       \* how many events the daemon's environment still produces

\* The daemon's variables.
daemonVars == <<cfg, mpc, insts, ss, disco, mdone, connect, mc, rl, bh, dlim>>

vars == <<kind, exists, period, done, sendq, dpc, dcur, invs, tpc, ticker,
          ps, mps, subs, conn, sub, main, lim, hist, panic, rf, daemonVars>>

-----------------------------------------------------------------------------
(* The modules, as their constructors build them.                          *)

\* The slots a module of kind k may fill.
Slots(k) == IF k \in Single THEN {"s1"} ELSE Sensors

\* Slots that are always filled: wan and net create a sub-sensor only when
\* one of its entities is configured.
Mandatory(k) == IF k \in {"wan", "net"} THEN {} ELSE Slots(k)

\* PolledSensor.ps after construction: wan and net set StubPubSub{}, the
\* modules that embed PolledSensor leave the interface nil.
newPs(k) == IF k \in {"wan", "net"} THEN StubPubSub ELSE NoHandle

\* The handle a refresh callback publishes on: the module's own field for
\* wan and net, the embedded PolledSensor's for the others.
cbHandle(s) == IF kind \in {"wan", "net"} THEN mps ELSE ps[s]

\* The sensors a module's Sync visits, in order.
syncOrder(k) == IF k \in Single THEN <<"s1">> ELSE <<"s1", "s2">>

\* The sensors a module's Close closes, in order: the composites' Close
\* methods have empty bodies.
closeOrder(k) ==
  CASE k \in Single -> <<"s1">>
    [] k = "wan" -> <<"s1", "s2">>
    [] OTHER -> <<>>

Alive == panic = "none"

\* The requests whose acceptance and start the history counts.
CountedTags == {"sync", "rqd", "upd"}

\* The same with an rqd handler that asks for an unforced refresh.
ReqOfUnforced(id) ==
  CASE id = "tick" -> [tag |-> "tick", forced |-> FALSE]
    [] id = "conn" -> [tag |-> "sync", forced |-> TRUE]
    [] id = "sub" -> IF sub.op = "rqd" THEN [tag |-> "rqd", forced |-> FALSE]
                     ELSE [tag |-> "upd", forced |-> FALSE]
    [] OTHER -> [tag |-> "relay", forced |-> FALSE]

\* The value a sender hands to p.refresh, with the call it comes from:
\* the tick loop and UpdatePeriod send false, Sync and the rqd handler
\* send true, wan's link callback sends false to the ip Poller.
ReqOf(id) ==
  CASE id = "tick" -> [tag |-> "tick", forced |-> FALSE]
    [] id = "conn" -> [tag |-> "sync", forced |-> TRUE]
    [] id = "sub" -> IF sub.op = "rqd" THEN [tag |-> "rqd", forced |-> TRUE]
                     ELSE [tag |-> "upd", forced |-> FALSE]
    [] OTHER -> [tag |-> "relay", forced |-> FALSE]

Count(f, s, tag) ==
  IF tag \in CountedTags THEN [f EXCEPT ![s][tag] = @ + 1] ELSE f

-----------------------------------------------------------------------------
(* NewPoller's first goroutine: the dispatch loop.                         *)

\* select: a sender is parked on p.refresh, so the receive proceeds; the
\* sender that parked first is resumed.  Where the senders resume is
\* given by the operators *After below.
TickAfter(s, ids, sent) ==
  IF "tick" \in ids
  THEN [tpc EXCEPT ![s] = IF sent THEN "outer" ELSE "stopping"]
  ELSE tpc

\* A Refresh that does not return when its request is accepted.
ConnAfterHeld(ids) == conn

ConnAfter(ids) ==
  IF "conn" \in ids THEN [conn EXCEPT !.pc = "sub1"] ELSE conn

SubIdle == [pc |-> "idle", op |-> "none", s |-> "s1", d |-> 0]

SubAfter(ids, sent) ==
  IF "sub" \in ids
  THEN IF sub.op = "rqd" THEN SubIdle
       ELSE [sub EXCEPT !.pc = IF sent THEN "reset" ELSE "pubpp"]
  ELSE sub

\* wan's link callback, in Refresh(false) on the ip Poller, goes on to
\* return.
InvsAfter(ids) ==
  IF "cb" \in ids
  THEN [invs EXCEPT !["s1"] =
          {IF i.stage \in {"relay", "relayParked"}
           THEN [i EXCEPT !.stage = "ret"] ELSE i :
             i \in @}]
  ELSE invs

DispatchRecv(s) ==
  /\ Alive /\ dpc[s] = "select" /\ sendq[s] # <<>>
  /\ LET id == Head(sendq[s]) IN
       /\ dcur' = [dcur EXCEPT ![s] = ReqOf(id)]
       /\ hist' = [hist EXCEPT !.acc = Count(@, s, ReqOf(id).tag)]
       /\ tpc' = TickAfter(s, {id}, TRUE)
       /\ conn' = ConnAfter({id})
       /\ sub' = SubAfter({id}, TRUE)
       /\ invs' = InvsAfter({id})
  /\ dpc' = [dpc EXCEPT ![s] = "call"]
  /\ sendq' = [sendq EXCEPT ![s] = Tail(@)]
  /\ UNCHANGED <<daemonVars, rf,
                 kind, exists, period, done, ticker, ps, mps, subs, main, lim, panic>>

\* select: p.done is closed, so the loop returns.
DispatchDone(s) ==
  /\ Alive /\ dpc[s] = "select" /\ done[s]
  /\ dpc' = [dpc EXCEPT ![s] = "exit"]
  /\ UNCHANGED <<daemonVars, rf,
                 kind, exists, period, done, sendq, dcur, invs, tpc, ticker,
                 ps, mps, subs, conn, sub, main, lim, hist, panic>>

\* select: no case can proceed, the goroutine parks on both channels.
DispatchPark(s) ==
  /\ Alive /\ dpc[s] = "select" /\ sendq[s] = <<>> /\ ~done[s]
  /\ dpc' = [dpc EXCEPT ![s] = "parked"]
  /\ UNCHANGED <<daemonVars, rf,
                 kind, exists, period, done, sendq, dcur, invs, tpc, ticker,
                 ps, mps, subs, conn, sub, main, lim, hist, panic>>

\* A loop that receives the request and goes round without calling f.
DispatchCallDropped(s) ==
  /\ Alive /\ dpc[s] = "call"
  /\ dpc' = [dpc EXCEPT ![s] = "select"]
  /\ UNCHANGED <<daemonVars, rf,
                 kind, exists, period, done, sendq, dcur, invs, tpc, ticker,
                 ps, mps, subs, conn, sub, main, lim, hist, panic>>

\* go f(forced): the callback starts and the loop goes round at once.
DispatchCallAsync(s) ==
  /\ Alive /\ dpc[s] = "call"
  /\ invs' = [invs EXCEPT ![s] = @ \cup
               {[tag |-> dcur[s].tag, forced |-> dcur[s].forced,
                 stage |-> "run"]}]
  /\ dpc' = [dpc EXCEPT ![s] = "select"]
  /\ hist' = [hist EXCEPT !.started = Count(@, s, dcur[s].tag)]
  /\ UNCHANGED <<daemonVars, rf,
                 kind, exists, period, done, sendq, dcur, tpc, ticker,
                 ps, mps, subs, conn, sub, main, lim, panic>>

\* f(forced): the callback starts and the loop waits for it to return.
DispatchCall(s) ==
  /\ Alive /\ dpc[s] = "call"
  /\ invs' = [invs EXCEPT ![s] = @ \cup
               {[tag |-> dcur[s].tag, forced |-> dcur[s].forced,
                 stage |-> "run"]}]
  /\ dpc' = [dpc EXCEPT ![s] = "wait"]
  /\ hist' = [hist EXCEPT !.started = Count(@, s, dcur[s].tag)]
  /\ UNCHANGED <<daemonVars, rf,
                 kind, exists, period, done, sendq, dcur, tpc, ticker,
                 ps, mps, subs, conn, sub, main, lim, panic>>

-----------------------------------------------------------------------------
(* Sending on p.refresh: the select of Refresh, of UpdatePeriod and of the *)
(* tick loop's inner select.                                               *)

\* The sensor whose Sync the reconnect-handling task is in.
ConnS == syncOrder(kind)[conn.i]

\* A link callback that refreshes the Poller it runs on.
SenderAtSelf(id, s) ==
  CASE id = "tick" -> tpc[s] = "inner"
    [] id = "conn" -> conn.pc = "refresh" /\ ConnS = s
    [] id = "sub" -> sub.pc = "select" /\ sub.s = s
    [] OTHER -> s = "s1" /\ \E i \in invs["s1"] : i.stage = "relay"

\* Sender id stands at its select on the Poller of sensor s.
SenderAt(id, s) ==
  CASE id = "tick" -> tpc[s] = "inner"
    [] id = "conn" -> conn.pc = "refresh" /\ ConnS = s
    [] id = "sub" -> sub.pc = "select" /\ sub.s = s
    [] OTHER -> s = "s2" /\ \E i \in invs["s1"] : i.stage = "relay"

SenderIds == {"tick", "conn", "sub", "cb"}

\* case p.refresh <- v: the dispatch loop is parked in its select.
SelectSend(id, s) ==
  /\ Alive /\ SenderAt(id, s) /\ dpc[s] = "parked"
  /\ dpc' = [dpc EXCEPT ![s] = "call"]
  /\ dcur' = [dcur EXCEPT ![s] = ReqOf(id)]
  /\ hist' = [hist EXCEPT !.acc = Count(@, s, ReqOf(id).tag)]
  /\ tpc' = TickAfter(s, {id}, TRUE)
  /\ conn' = ConnAfter({id})
  /\ sub' = SubAfter({id}, TRUE)
  /\ invs' = InvsAfter({id})
  /\ UNCHANGED <<daemonVars, rf,
                 kind, exists, period, done, sendq, ticker, ps, mps, subs,
                 main, lim, panic>>

\* case <-p.done: the Poller is closed.
SelectDone(id, s) ==
  /\ Alive /\ SenderAt(id, s) /\ done[s]
  /\ tpc' = TickAfter(s, {id}, FALSE)
  /\ conn' = ConnAfter({id})
  /\ sub' = SubAfter({id}, FALSE)
  /\ invs' = InvsAfter({id})
  /\ UNCHANGED <<daemonVars, rf,
                 kind, exists, period, done, sendq, dpc, dcur, ticker, ps,
                 mps, subs, main, lim, hist, panic>>

\* A send that is not in a select with the case <-p.done: the sender
\* parks whether or not the Poller is closed.
SelectParkAnyway(id, s) ==
  /\ Alive /\ SenderAt(id, s) /\ dpc[s] # "parked"
  /\ sendq' = [sendq EXCEPT ![s] = Append(@, id)]
  /\ tpc' = IF id = "tick" THEN [tpc EXCEPT ![s] = "innerParked"] ELSE tpc
  /\ conn' = IF id = "conn" THEN [conn EXCEPT !.pc = "parked"] ELSE conn
  /\ sub' = IF id = "sub" THEN [sub EXCEPT !.pc = "parked"] ELSE sub
  /\ invs' = IF id = "cb"
             THEN [invs EXCEPT !["s1"] =
                     {IF i.stage = "relay" THEN [i EXCEPT !.stage = "relayParked"]
                      ELSE i : i \in @}]
             ELSE invs
  /\ UNCHANGED <<daemonVars, rf,
                 kind, exists, period, done, dpc, dcur, ticker, ps, mps, subs,
                 main, lim, hist, panic>>

\* An inner select with a default case: the tick is dropped when the
\* dispatch loop is not ready to receive.
SelectDrop(id, s) ==
  /\ Alive /\ SenderAt(id, s) /\ dpc[s] # "parked" /\ ~done[s]
  /\ tpc' = IF id = "tick" THEN [tpc EXCEPT ![s] = "outer"] ELSE tpc
  /\ conn' = ConnAfter({id})
  /\ sub' = SubAfter({id}, TRUE)
  /\ invs' = InvsAfter({id})
  /\ UNCHANGED <<daemonVars, rf,
                 kind, exists, period, done, sendq, dpc, dcur, ticker, ps, mps,
                 subs, main, lim, hist, panic>>

\* Neither case can proceed: the sender parks.
SelectPark(id, s) ==
  /\ Alive /\ SenderAt(id, s) /\ dpc[s] # "parked" /\ ~done[s]
  /\ sendq' = [sendq EXCEPT ![s] = Append(@, id)]
  /\ tpc' = IF id = "tick" THEN [tpc EXCEPT ![s] = "innerParked"] ELSE tpc
  /\ conn' = IF id = "conn" THEN [conn EXCEPT !.pc = "parked"] ELSE conn
  /\ sub' = IF id = "sub" THEN [sub EXCEPT !.pc = "parked"] ELSE sub
  /\ invs' = IF id = "cb"
             THEN [invs EXCEPT !["s1"] =
                     {IF i.stage = "relay" THEN [i EXCEPT !.stage = "relayParked"]
                      ELSE i : i \in @}]
             ELSE invs
  /\ UNCHANGED <<daemonVars, rf,
                 kind, exists, period, done, dpc, dcur, ticker, ps, mps, subs,
                 main, lim, hist, panic>>

-----------------------------------------------------------------------------
(* NewPoller's second goroutine: the tick loop, and the ticker.            *)

\* p.t = time.NewTicker(p.period); NewTicker panics on a period <= 0.
TickStart(s) ==
  /\ Alive /\ tpc[s] = "start"
  /\ IF period[s] <= 0
     THEN /\ panic' = "non-positive interval for NewTicker"
          /\ UNCHANGED <<tpc, ticker>>
     ELSE /\ ticker' = [ticker EXCEPT ![s] =
                          [made |-> TRUE, period |-> period[s],
                           running |-> TRUE, pending |-> FALSE]]
          /\ tpc' = [tpc EXCEPT ![s] = "outer"]
          /\ UNCHANGED panic
  /\ UNCHANGED <<daemonVars, rf,
                 kind, exists, period, done, sendq, dpc, dcur, invs, ps, mps,
                 subs, conn, sub, main, lim, hist>>

\* The ticker fires: the tick goes to the tick loop parked on p.t.C, or
\* into the channel's one-element buffer, or is dropped.
TickFire(s) ==
  /\ Alive /\ ticker[s].running
  /\ lim.free \/ lim.ticks > 0
  /\ tpc[s] = "outerParked" \/ ~ticker[s].pending
  /\ IF tpc[s] = "outerParked"
     THEN tpc' = [tpc EXCEPT ![s] = "inner"] /\ UNCHANGED ticker
     ELSE ticker' = [ticker EXCEPT ![s].pending = TRUE] /\ UNCHANGED tpc
  /\ lim' = IF lim.free THEN lim ELSE [lim EXCEPT !.ticks = @ - 1]
  /\ UNCHANGED <<daemonVars, rf,
                 kind, exists, period, done, sendq, dpc, dcur, invs, ps, mps,
                 subs, conn, sub, main, hist, panic>>

\* Outer select, case <-p.t.C.
TickTake(s) ==
  /\ Alive /\ tpc[s] = "outer" /\ ticker[s].pending
  /\ ticker' = [ticker EXCEPT ![s].pending = FALSE]
  /\ tpc' = [tpc EXCEPT ![s] = "inner"]
  /\ UNCHANGED <<daemonVars, rf,
                 kind, exists, period, done, sendq, dpc, dcur, invs, ps, mps,
                 subs, conn, sub, main, lim, hist, panic>>

\* Outer select, case <-p.done.
TickDone(s) ==
  /\ Alive /\ tpc[s] = "outer" /\ done[s]
  /\ tpc' = [tpc EXCEPT ![s] = "stopping"]
  /\ UNCHANGED <<daemonVars, rf,
                 kind, exists, period, done, sendq, dpc, dcur, invs, ticker,
                 ps, mps, subs, conn, sub, main, lim, hist, panic>>

\* Outer select, nothing ready.
TickPark(s) ==
  /\ Alive /\ tpc[s] = "outer" /\ ~ticker[s].pending /\ ~done[s]
  /\ tpc' = [tpc EXCEPT ![s] = "outerParked"]
  /\ UNCHANGED <<daemonVars, rf,
                 kind, exists, period, done, sendq, dpc, dcur, invs, ticker,
                 ps, mps, subs, conn, sub, main, lim, hist, panic>>

\* defer p.t.Stop(), on the way out.
TickStop(s) ==
  /\ Alive /\ tpc[s] = "stopping"
  /\ ticker' = [ticker EXCEPT ![s].running = FALSE]
  /\ tpc' = [tpc EXCEPT ![s] = "exit"]
  /\ UNCHANGED <<daemonVars, rf,
                 kind, exists, period, done, sendq, dpc, dcur, invs, ps, mps,
                 subs, conn, sub, main, lim, hist, panic>>

-----------------------------------------------------------------------------
(* The refresh callbacks of the modules.                                   *)

\* What a callback measures, as far as it decides on publishing: the
\* content of the state message it would build.  For cmd "v0" is the
\* command that succeeds (err == nil), any other value a failure.
Measured == {"v0", "v1"}

\* The content a module holds after construction, and no call yet.
NoCall ==
  [content |-> "none", called |-> FALSE, forced |-> FALSE, prev |-> "none",
   cur |-> "none", err |-> FALSE, pub |-> FALSE]

\* binarySensorCmd.update: c.err != err compares the error values, and
\* each failing run returns a newly allocated error, so only two nil
\* errors are equal.
cmdChanged(prev, cur) == ~(prev = "v0" /\ cur = "v0")

\* The refresh callbacks, as functions of the flag, the content held
\* (prev), the content measured (cur) and whether reading the statistics
\* failed (err): whether the state message is published, and the content
\* held afterwards.
\*   cpu.Refresh, Mem.Refresh return before publishing on a read error;
\*   systemInfo.Refresh ignores the flag and compares the messages;
\*   mount.Refresh: update() returns false on a parse error;
\*   binarySensorCmd.Refresh: update() as above;
\*   netIf.RefreshStats ignores the flag and always publishes;
\*   wan.RefreshLink, wan.RefreshIP, netIf.RefreshLink compare the values.
Refresh(k, s, forced, prev, cur, err) ==
  CASE k \in {"cpu", "mem"} ->
         IF err THEN [pub |-> FALSE, content |-> prev]
         ELSE [pub |-> forced \/ cur # prev, content |-> cur]
    [] k = "sys_info" -> [pub |-> cur # prev, content |-> cur]
    [] k = "fs" ->
         IF err THEN [pub |-> forced, content |-> prev]
         ELSE [pub |-> forced \/ cur # prev, content |-> cur]
    [] k = "cmd" -> [pub |-> forced \/ cmdChanged(prev, cur), content |-> cur]
    [] k = "net" /\ s = "s2" -> [pub |-> TRUE, content |-> cur]
    [] OTHER -> [pub |-> forced \/ cur # prev, content |-> cur]

\* Whether the callback of sensor s may return without publishing.
maySkip(s, forced) ==
  {m \in Measured \X Measured \X BOOLEAN :
     ~Refresh(kind, s, forced, m[1], m[2], m[3]).pub} # {}

\* wan.RefreshLink goes on to refresh the ip sensor, when there is one.
relays(s) == kind = "wan" /\ s = "s1" /\ exists["s2"]

\* The callback returns: the dispatch loop, which waited, loops.
Returned(s, i) ==
  /\ invs' = [invs EXCEPT ![s] = @ \ {i}]
  /\ dpc' = [dpc EXCEPT ![s] = IF @ = "wait" THEN "select" ELSE @]

CallbackSkip(s) ==
  /\ Alive
  /\ \E i \in invs[s] :
       /\ i.stage = "run" /\ maySkip(s, i.forced)
       /\ Returned(s, i)
  /\ UNCHANGED <<daemonVars, rf,
                 kind, exists, period, done, sendq, dcur, tpc, ticker, ps, mps,
                 subs, conn, sub, main, lim, hist, panic>>

\* ps.Publish(topic, msg) on the handle the module holds at that moment;
\* a nil interface panics.
CallbackPublish(s) ==
  /\ Alive
  /\ \E i \in invs[s] :
       /\ i.stage = "run"
       /\ IF cbHandle(s) = NoHandle
          THEN /\ panic' = "nil PubSub"
               /\ UNCHANGED <<invs, dpc, hist>>
          ELSE /\ panic' = panic
               /\ hist' = [hist EXCEPT !.spub[s] = cbHandle(s)]
               /\ IF relays(s)
                  THEN /\ invs' = [invs EXCEPT ![s] =
                                     (@ \ {i}) \cup {[i EXCEPT !.stage = "relay"]}]
                       /\ UNCHANGED dpc
                  ELSE Returned(s, i)
  /\ UNCHANGED <<daemonVars, rf,
                 kind, exists, period, done, sendq, dcur, tpc, ticker, ps, mps,
                 subs, conn, sub, main, lim>>

\* wan.RefreshLink returns after its Refresh(false) on the ip Poller.
CallbackReturn(s) ==
  /\ Alive
  /\ \E i \in invs[s] : i.stage = "ret" /\ Returned(s, i)
  /\ UNCHANGED <<daemonVars, rf,
                 kind, exists, period, done, sendq, dcur, tpc, ticker, ps, mps,
                 subs, conn, sub, main, lim, hist, panic>>

-----------------------------------------------------------------------------
(* Poller.Close and the modules' Close.                                    *)

Range(q) == {q[k] : k \in 1..Len(q)}

\* A Close that sets a flag: the goroutines parked in a select stay
\* parked.
PollerCloseFlag(s) ==
  IF done[s]
  THEN /\ panic' = "close of closed channel"
       /\ UNCHANGED <<done, sendq, dpc, tpc, conn, sub, invs>>
  ELSE /\ done' = [done EXCEPT ![s] = TRUE]
       /\ UNCHANGED <<sendq, dpc, tpc, conn, sub, invs, panic>>

\* close(p.done): closing a closed channel panics; otherwise every
\* goroutine parked in a select with the case <-p.done resumes there.
PollerClose(s) ==
  IF done[s]
  THEN /\ panic' = "close of closed channel"
       /\ UNCHANGED <<done, sendq, dpc, tpc, conn, sub, invs>>
  ELSE /\ done' = [done EXCEPT ![s] = TRUE]
       /\ sendq' = [sendq EXCEPT ![s] = <<>>]
       /\ dpc' = [dpc EXCEPT ![s] = IF @ = "parked" THEN "exit" ELSE @]
       /\ tpc' = [TickAfter(s, Range(sendq[s]), FALSE) EXCEPT
                    ![s] = IF @ = "outerParked" THEN "stopping" ELSE @]
       /\ conn' = ConnAfter(Range(sendq[s]))
       /\ sub' = SubAfter(Range(sendq[s]), FALSE)
       /\ invs' = InvsAfter(Range(sendq[s]))
       /\ UNCHANGED panic

\* The module's Close is called.  fs, net and cmd return at once.
MainClose ==
  /\ Alive /\ main.i = 0 /\ lim.close > 0
  /\ lim' = [lim EXCEPT !.close = @ - 1]
  /\ main' = IF closeOrder(kind) = <<>>
             THEN [main EXCEPT !.n = @ + 1]
             ELSE [main EXCEPT !.i = 1]
  /\ UNCHANGED <<daemonVars, rf,
                 kind, exists, period, done, sendq, dpc, dcur, invs, tpc,
                 ticker, ps, mps, subs, conn, sub, hist, panic>>

\* PolledSensor.Close on the next sensor: a nil sensor is skipped.
SensorClose ==
  /\ Alive /\ main.i > 0
  /\ LET s == closeOrder(kind)[main.i] IN
       IF exists[s]
       THEN PollerClose(s)
       ELSE UNCHANGED <<done, sendq, dpc, tpc, conn, sub, invs, panic>>
  /\ main' = IF main.i < Len(closeOrder(kind))
             THEN [main EXCEPT !.i = @ + 1]
             ELSE [main EXCEPT !.i = 0, !.n = @ + 1]
  /\ UNCHANGED <<daemonVars, rf,
                 kind, exists, period, dcur, ticker, ps, mps, subs, lim, hist>>

-----------------------------------------------------------------------------
(* PolledSensor.Sync, called by the reconnect-handling task through the    *)
(* module's Sync.                                                          *)

\* After PolledSensor.Sync on one sensor: on to the module's next sensor,
\* or back from the module's Sync.
ConnNext(c) ==
  IF c.i < Len(syncOrder(kind))
  THEN [c EXCEPT !.pc = "bind", !.i = @ + 1]
  ELSE [c EXCEPT !.pc = "idle", !.i = 1]

\* The module's Sync is called with a fresh mqttPubSub; wan and net store
\* it in their own field first.
ModuleSync ==
  /\ Alive /\ conn.pc = "idle" /\ lim.sync > 0
  /\ lim' = [lim EXCEPT !.sync = @ - 1]
  /\ conn' = [conn EXCEPT !.pc = "bind", !.i = 1, !.h = @ + 1]
  /\ mps' = IF kind \in {"wan", "net"} THEN mqttPubSub(conn.h + 1) ELSE mps
  /\ UNCHANGED <<daemonVars, rf,
                 kind, exists, period, done, sendq, dpc, dcur, invs, tpc,
                 ticker, ps, subs, sub, main, hist, panic>>

\* A Sync that binds the handle and goes on without s.poller.Refresh(true).
SyncBindNoRefresh ==
  /\ Alive /\ conn.pc = "bind"
  /\ IF exists[ConnS]
     THEN /\ ps' = [ps EXCEPT ![ConnS] = mqttPubSub(conn.h)]
          /\ conn' = [conn EXCEPT !.pc = "sub1", !.cnt = 0]
     ELSE /\ conn' = ConnNext(conn)
          /\ UNCHANGED ps
  /\ UNCHANGED <<daemonVars, rf,
                 kind, exists, period, done, sendq, dpc, dcur, invs, tpc,
                 ticker, mps, subs, sub, main, lim, hist, panic>>

\* A Sync without the test of the receiver.
SyncBindUnchecked ==
  /\ Alive /\ conn.pc = "bind"
  /\ ps' = [ps EXCEPT ![ConnS] = mqttPubSub(conn.h)]
  /\ conn' = [conn EXCEPT !.pc = "refresh", !.cnt = 0]
  /\ UNCHANGED <<daemonVars, rf,
                 kind, exists, period, done, sendq, dpc, dcur, invs, tpc,
                 ticker, mps, subs, sub, main, lim, hist, panic>>

\* if s == nil { return }; s.ps = ps
SyncBind ==
  /\ Alive /\ conn.pc = "bind"
  /\ IF exists[ConnS]
     THEN /\ ps' = [ps EXCEPT ![ConnS] = mqttPubSub(conn.h)]
          /\ conn' = [conn EXCEPT !.pc = "refresh", !.cnt = 0]
     ELSE /\ conn' = ConnNext(conn)
          /\ UNCHANGED ps
  /\ UNCHANGED <<daemonVars, rf,
                 kind, exists, period, done, sendq, dpc, dcur, invs, tpc,
                 ticker, mps, subs, sub, main, lim, hist, panic>>

\* s.poller.Refresh(true) is SelectSend, SelectDone and SelectPark above.
\* ps.Subscribe(s.topic+"/rqd", ...)
SyncSubscribe ==
  /\ Alive /\ conn.pc = "sub1"
  /\ subs' = subs \cup {<<conn.h, ConnS, "rqd">>}
  /\ conn' = [conn EXCEPT !.pc = "pub"]
  /\ UNCHANGED <<daemonVars, rf,
                 kind, exists, period, done, sendq, dpc, dcur, invs, tpc,
                 ticker, ps, mps, sub, main, lim, hist, panic>>

\* The Publish of a Sync that sends the configured period whatever the
\* Poller's period has become.
SyncPublishConfigured ==
  /\ Alive /\ conn.pc = "pub"
  /\ hist' = [hist EXCEPT !.pp[ConnS] =
                [h |-> mqttPubSub(conn.h), val |-> CHOOSE p \in ConfigPeriods : TRUE,
                 by |-> "Sync"]]
  /\ subs' = subs \cup {<<conn.h, ConnS, "rqd/poll_period">>}
  /\ conn' = ConnNext([conn EXCEPT !.cnt = @ + 1])
  /\ UNCHANGED <<daemonVars, rf,
                 kind, exists, period, done, sendq, dpc, dcur, invs, tpc,
                 ticker, ps, mps, sub, main, lim, panic>>

\* ps.Publish(s.topic+"/poll_period", s.poller.period), which reads the
\* period as the call is made (an unsynchronised read of one word: it
\* returns what the last store before it in the interleaving left);
\* ps.Subscribe(s.topic+"/rqd/poll_period", s.SetPollPeriod)
SyncPublish ==
  /\ Alive /\ conn.pc = "pub"
  /\ hist' = [hist EXCEPT !.pp[ConnS] =
                [h |-> mqttPubSub(conn.h), val |-> period[ConnS], by |-> "Sync"]]
  /\ subs' = subs \cup {<<conn.h, ConnS, "rqd/poll_period">>}
  /\ conn' = ConnNext([conn EXCEPT !.cnt = @ + 1])
  /\ UNCHANGED <<daemonVars, rf,
                 kind, exists, period, done, sendq, dpc, dcur, invs, tpc,
                 ticker, ps, mps, sub, main, lim, panic>>

-----------------------------------------------------------------------------
(* The subscription handlers, run one message at a time by the transport.  *)

Subscribed(s, suffix) == \E e \in subs : e[2] = s /\ e[3] = suffix

\* A message on <topic>/rqd, whose payload the handler does not look at:
\* s.poller.Refresh(true).
MsgRqd(s) ==
  /\ Alive /\ sub.pc = "idle" /\ lim.msgs > 0 /\ Subscribed(s, "rqd")
  /\ lim' = [lim EXCEPT !.msgs = @ - 1]
  /\ sub' = [pc |-> "select", op |-> "rqd", s |-> s, d |-> 0]
  /\ hist' = [hist EXCEPT !.rqd[s] = @ + 1]
  /\ UNCHANGED <<daemonVars, rf,
                 kind, exists, period, done, sendq, dpc, dcur, invs, tpc,
                 ticker, ps, mps, subs, conn, main, panic>>

\* The history of the payloads on <topic>/rqd/poll_period: how many did
\* not parse.
Received(b) ==
  IF ParseDuration(b).ok THEN hist ELSE [hist EXCEPT !.rejected = @ + 1]

\* A SetPollPeriod that goes on with the zero duration ParseDuration
\* returns beside its error.
SetPollPeriodUnchecked(s, b) ==
  /\ Alive /\ sub.pc = "idle" /\ lim.msgs > 0 /\ Subscribed(s, "rqd/poll_period")
  /\ lim' = [lim EXCEPT !.msgs = @ - 1]
  /\ hist' = Received(b)
  /\ period' = [period EXCEPT ![s] = ParseDuration(b).d]
  /\ sub' = [pc |-> "select", op |-> "upd", s |-> s, d |-> ParseDuration(b).d]
  /\ UNCHANGED <<daemonVars, rf,
                 kind, exists, done, sendq, dpc, dcur, invs, tpc, ticker, ps,
                 mps, subs, conn, main, panic>>

\* A message on <topic>/rqd/poll_period: SetPollPeriod parses it, returns
\* on an error, and else enters UpdatePeriod, which stores the period.
SetPollPeriod(s, b) ==
  /\ Alive /\ sub.pc = "idle" /\ lim.msgs > 0 /\ Subscribed(s, "rqd/poll_period")
  /\ lim' = [lim EXCEPT !.msgs = @ - 1]
  /\ hist' = Received(b)
  /\ IF ParseDuration(b).ok
     THEN /\ period' = [period EXCEPT ![s] = ParseDuration(b).d]
          /\ sub' = [pc |-> "select", op |-> "upd", s |-> s,
                     d |-> ParseDuration(b).d]
     ELSE UNCHANGED <<period, sub>>
  /\ UNCHANGED <<daemonVars, rf,
                 kind, exists, done, sendq, dpc, dcur, invs, tpc, ticker, ps,
                 mps, subs, conn, main, panic>>

\* UpdatePeriod after its request was accepted: p.t.Reset(p.period).  p.t
\* is nil until the tick loop has made the ticker, and Reset panics on a
\* period <= 0.
UpdatePeriodReset ==
  /\ Alive /\ sub.pc = "reset"
  /\ IF ~ticker[sub.s].made
     THEN panic' = "nil Ticker" /\ UNCHANGED <<ticker, sub>>
     ELSE IF period[sub.s] <= 0
     THEN panic' = "non-positive interval for Ticker.Reset"
          /\ UNCHANGED <<ticker, sub>>
     ELSE /\ ticker' = [ticker EXCEPT ![sub.s].period = period[sub.s],
                                      ![sub.s].running = TRUE]
          /\ sub' = [sub EXCEPT !.pc = "pubpp"]
          /\ UNCHANGED panic
  /\ UNCHANGED <<daemonVars, rf,
                 kind, exists, period, done, sendq, dpc, dcur, invs, tpc, ps,
                 mps, subs, conn, main, lim, hist>>

\* SetPollPeriod after UpdatePeriod has returned:
\* s.ps.Publish(s.topic+"/poll_period", d)
PollPeriodPublish ==
  /\ Alive /\ sub.pc = "pubpp"
  /\ IF ps[sub.s] = NoHandle
     THEN panic' = "nil PubSub" /\ UNCHANGED hist
     ELSE /\ hist' = IF ps[sub.s] = StubPubSub THEN hist
                     ELSE [hist EXCEPT !.pp[sub.s] =
                             [h |-> ps[sub.s], val |-> sub.d, by |-> "SetPollPeriod"]]
          /\ UNCHANGED panic
  /\ sub' = SubIdle
  /\ UNCHANGED <<daemonVars, rf,
                 kind, exists, period, done, sendq, dpc, dcur, invs, tpc,
                 ticker, ps, mps, subs, conn, main, lim>>

-----------------------------------------------------------------------------
(* The operations of PolledSensor on a nil receiver: the optional          *)
(* sub-sensor of a wan or net module that was not configured.  Close and   *)
(* Sync on it are in SensorClose and SyncBind above.                       *)

Absent(s) == s \in Slots(kind) /\ ~exists[s]

\* Done: return s.poller.done, which dereferences s.
AbsentDone(s) ==
  /\ Alive /\ Absent(s)
  /\ panic' = "nil PolledSensor"
  /\ UNCHANGED <<daemonVars, rf,
                 kind, exists, period, done, sendq, dpc, dcur, invs, tpc,
                 ticker, ps, mps, subs, conn, sub, main, lim, hist>>

\* SetPollPeriod: returns on a payload that does not parse, and else
\* calls s.poller.UpdatePeriod(d), which dereferences s.
AbsentSetPollPeriod(s, b) ==
  /\ Alive /\ Absent(s)
  /\ panic' = IF ParseDuration(b).ok THEN "nil PolledSensor" ELSE panic
  /\ UNCHANGED <<daemonVars, rf,
                 kind, exists, period, done, sendq, dpc, dcur, invs, tpc,
                 ticker, ps, mps, subs, conn, sub, main, lim, hist>>

-----------------------------------------------------------------------------
(* Construction, and the specifications.                                   *)

NoPub == [h |-> NoHandle, val |-> 0, by |-> "none"]

\* The Pollers and the modules on their own: no daemon around them.
NoDaemon ==
  /\ cfg = [mm |-> <<>>, prefix |-> "", macOk |-> TRUE]
  /\ mpc = [pc |-> "none", i |-> 0]
  /\ insts = <<>>
  /\ ss = <<>>
  /\ disco = {}
  /\ mdone = FALSE
  /\ connect = 0
  /\ mc = [tok |-> "none", link |-> "new", armed |-> 0, events |-> 0]
  /\ rl = [pc |-> "none", todo |-> {}, n |-> 0, log |-> <<>>]
  /\ bh = [pc |-> "none", todo |-> {}, online |-> 0, adv |-> 0, sent |-> {},
          pubs |-> {}]
  /\ dlim = [fails |-> 0, connects |-> 0, births |-> 0]

\* A module of kind k, just constructed, with the sensors ex and the
\* configured period p, before any goroutine has run.
Constructed(k, ex, p, l) ==
  /\ kind = k
  /\ exists = [s \in Sensors |-> s \in ex]
  /\ period = [s \in Sensors |-> IF s \in ex THEN p ELSE 0]
  /\ done = [s \in Sensors |-> FALSE]
  /\ sendq = [s \in Sensors |-> <<>>]
  /\ dpc = [s \in Sensors |-> IF s \in ex THEN "select" ELSE "none"]
  /\ dcur = [s \in Sensors |-> NoReq]
  /\ invs = [s \in Sensors |-> {}]
  /\ tpc = [s \in Sensors |-> IF s \in ex THEN "start" ELSE "none"]
  /\ ticker = [s \in Sensors |->
                 [made |-> FALSE, period |-> 0, running |-> FALSE, pending |-> FALSE]]
  /\ ps = [s \in Sensors |-> newPs(k)]
  /\ mps = StubPubSub
  /\ subs = {}
  /\ conn = [pc |-> "idle", i |-> 1, h |-> 0, cnt |-> 0, v |-> 0]
  /\ sub = SubIdle
  /\ main = [i |-> 0, n |-> 0]
  /\ lim = l
  /\ hist = [acc |-> [s \in Sensors |-> [g \in CountedTags |-> 0]],
             started |-> [s \in Sensors |-> [g \in CountedTags |-> 0]],
             pp |-> [s \in Sensors |-> NoPub],
             spub |-> [s \in Sensors |-> NoHandle],
             rejected |-> 0,
             rqd |-> [s \in Sensors |-> 0]]
  /\ panic = "none"
  /\ rf = [s \in Sensors |-> NoCall]

\* One PolledSensor under every interleaving of ticks, Sync, control
\* messages and Close.
Init ==
  /\ NoDaemon
  /\ \E p \in ConfigPeriods :
       Constructed("cpu", {"s1"}, p,
                   [sync |-> MaxSync, msgs |-> MaxMsgs, close |-> MaxClose,
                    ticks |-> 0, free |-> TRUE])

\* The goroutines of the Pollers, the callbacks, Sync and Close.
CoreNext ==
  \/ \E s \in Sensors :
       \/ DispatchRecv(s) \/ DispatchDone(s) \/ DispatchPark(s) \/ DispatchCall(s)
       \/ TickStart(s) \/ TickFire(s) \/ TickTake(s) \/ TickDone(s)
       \/ TickPark(s) \/ TickStop(s)
       \/ CallbackSkip(s) \/ CallbackPublish(s)
       \/ \E id \in SenderIds : SelectSend(id, s) \/ SelectDone(id, s) \/ SelectPark(id, s)
  \/ MainClose \/ SensorClose
  \/ ModuleSync \/ SyncBind \/ SyncSubscribe \/ SyncPublish

\* The control messages.
MsgNext ==
  \/ \E s \in Sensors :
       \/ MsgRqd(s)
       \/ \E b \in Payloads : SetPollPeriod(s, b)
  \/ UpdatePeriodReset \/ PollPeriodPublish

Next == CoreNext \/ MsgNext

Spec == Init /\ [][Next]_vars

\* Every kind of module, with every choice of its optional sensors.
ModInit ==
  \E k \in Kinds : \E ex \in SUBSET Slots(k) :
    /\ NoDaemon
    /\ Mandatory(k) \subseteq ex /\ ex # {}
    /\ Constructed(k, ex, 1,
                   [sync |-> ModSync, msgs |-> 0, close |-> ModClose,
                    ticks |-> ModTicks, free |-> FALSE])

ModNext == CoreNext \/ \E s \in Sensors : CallbackReturn(s)

ModSpec == ModInit /\ [][ModNext]_vars

\* The wan and net modules that were configured without one of their two
\* sub-sensors.
OptInit ==
  \E k \in {"wan", "net"} : \E s \in Sensors :
    /\ NoDaemon
    /\ Constructed(k, {s}, 1,
                   [sync |-> ModSync, msgs |-> 0, close |-> ModClose,
                    ticks |-> ModTicks, free |-> FALSE])

OptSpec == OptInit /\ [][CoreNext]_vars

\* The modules, with every operation of PolledSensor also called on the
\* sub-sensors they do not have.
AbsentNext ==
  \/ ModNext
  \/ \E s \in Sensors :
       \/ AbsentDone(s)
       \/ \E b \in Payloads : AbsentSetPollPeriod(s, b)

AbsentSpec == ModInit /\ [][AbsentNext]_vars

-----------------------------------------------------------------------------
(* The daemon: main() of dunnart.go, the transport's callbacks and the     *)
(* signal.  The modules are taken as opaque here: a factory call returns   *)
(* an instance, and a call of Sync, Publish or Close on it returns.        *)

\* The names with a factory in moduleFactories (two of those the modules'
\* init functions register), and the names a configuration may list.
Registered == {"cpu", "mem"}
ModuleNames == Registered \cup {"gpu"}

MaxMods == 2
MaxFails == 1
MaxConnects == 2
MaxBirths == 1

\* The birth-topic payloads: Home Assistant's birth and last-will messages.
BirthPayloads == {"online", "offline"}

baseTopic == "dunnart"
uid == "dnrt-0a1b2c"

RECURSIVE SeqsUpTo(_, _)
\* The sequences over S of length at most n.
SeqsUpTo(S, n) ==
  IF n = 0 THEN {<<>>}
  ELSE LET T == SeqsUpTo(S, n - 1)
       IN  T \cup {Append(q, x) : q \in {r \in T : Len(r) = n - 1}, x \in S}

\* Everything but the daemon's variables.
moduleVars == <<kind, exists, period, done, sendq, dpc, dcur, invs, tpc,
                ticker, ps, mps, subs, conn, sub, main, lim, hist, panic,
                rf>>

\* The process has neither returned from main nor died in log.Fatalf.
Running == mpc.pc \notin {"none", "exited", "fatal"}

\* A handle on the base topic whatever the entry.
TopicUnscoped(modName) == <<baseTopic>>

\* The topic main scopes the handle of entry modName to: a path, as the
\* sequence of its segments.
Topic(modName) ==
  IF Len(modName) > 0 THEN <<baseTopic, modName>> ELSE <<baseTopic>>

\* The keys of the map ss after the first i module names were handled.
Keys == DOMAIN ss

nodeID == "host"
mac == "0a:1b:2c:3d:4e:5f"

\* A string is the sequence of its pieces, so that a template can be told
\* from the text around it: <<"{{.NodeId}}", "_status">>.
Tilde == <<"~">>

\* Config() of the daemon's status entry, and the entities the cpu and mem
\* modules are built with in their default configuration.
Config(modName) ==
  CASE modName = "" ->
         <<[name |-> "status", class |-> "binary_sensor",
            config |-> ("name" :> <<"status">>
                        @@ "object_id" :> <<"{{.NodeId}}", "_status">>
                        @@ "state_topic" :> Tilde
                        @@ "device_class" :> <<"connectivity">>
                        @@ "payload_on" :> <<"online">>
                        @@ "payload_off" :> <<"offline">>)]>>
    [] modName = "cpu" ->
         <<[name |-> "temperature", class |-> "sensor",
            config |-> ("name" :> <<"CPU temperature">>
                        @@ "state_topic" :> <<"~/cpu">>
                        @@ "device_class" :> <<"temperature">>)]>>
    [] modName = "mem" ->
         <<[name |-> "ram_used_percent", class |-> "sensor",
            config |-> ("name" :> <<"{{.NodeId}}", " RAM used percent">>
                        @@ "state_topic" :> <<"~/mem">>
                        @@ "icon" :> <<"mdi:gauge">>)]>>
    [] OTHER -> <<>>

\* What a.Config() returns for the entry of ss under k: the daemon's entry
\* builds its maps afresh, a module hands out the maps it holds.
Entities(k) == IF ss[k] = 0 THEN Config("") ELSE insts[ss[k]].config

\* An entity id without the module's name.
entityIDUnscoped(modName, name) == <<uid, name>>

\* euid: uid, then the module's name unless it is empty, then the entity's
\* name; the pieces are joined with "-".
entityID(modName, name) ==
  (IF Len(modName) > 0 THEN <<uid, modName>> ELSE <<uid>>) \o <<name>>

\* The discovery topic of an entity: its segments are joined with "/".
entityTopic(prefix, modName, e) ==
  <<prefix, e.class, entityID(modName, e.name), "config">>

\* baseCfg as newDiscovery has set it when it normalises entity e.
baseCfgOf(modName, e) ==
  "~" :> <<baseTopic>>
  @@ "device" :> <<"device", nodeID, mac>>
  @@ "unique_id" :> entityID(modName, e.name)
  @@ "object_id" :> <<nodeID, "_", modName, "_", e.name>>

\* c without the key k.
Without(c, k) == [x \in DOMAIN c \ {k} |-> c[x]]

\* An overlay that extends the values of the keys it finds present.
normaliseConfigAppending(c, baseCfg) ==
  [k \in DOMAIN c \cup DOMAIN baseCfg |->
     IF k \notin DOMAIN baseCfg THEN c[k]
     ELSE IF k \in DOMAIN c THEN c[k] \o baseCfg[k] ELSE baseCfg[k]]

\* A normalisation that leaves the availability_topic in place.
normaliseConfigKeeping(c, baseCfg) ==
  LET c1 == [k \in DOMAIN c \cup DOMAIN baseCfg |->
               IF k \in DOMAIN c THEN c[k] ELSE baseCfg[k]]
  IN  IF "availability_topic" \notin DOMAIN c1 /\ "availability" \notin DOMAIN c1
        THEN c1 @@ "availability_topic" :> Tilde
        ELSE c1

\* normaliseConfig, the map it leaves in cfg: the keys of baseCfg that cfg
\* lacks are added, availability_topic is set to "~" if cfg has neither it
\* nor availability, and is deleted if state_topic is "~".
normaliseConfig(c, baseCfg) ==
  LET c1 == [k \in DOMAIN c \cup DOMAIN baseCfg |->
               IF k \in DOMAIN c THEN c[k] ELSE baseCfg[k]]
      c2 == IF "availability_topic" \notin DOMAIN c1
               /\ "availability" \notin DOMAIN c1
              THEN c1 @@ "availability_topic" :> Tilde
              ELSE c1
  IN  IF "state_topic" \in DOMAIN c2 /\ c2["state_topic"] = Tilde
        THEN Without(c2, "availability_topic")
        ELSE c2

\* strings.ReplaceAll(config, "{{.NodeId}}", nodeID) on one string.
ReplaceAll(v) ==
  [i \in DOMAIN v |-> IF v[i] = "{{.NodeId}}" THEN nodeID ELSE v[i]]

\* json.Marshal of the map, after the template substitution: the JSON
\* object as the set of its members.
Marshal(c) == {<<k, ReplaceAll(c[k])>> : k \in DOMAIN c}

\* The entries of c with the positions of their entities.
EntityRefs(c) ==
  UNION {{<<k, j>> : j \in DOMAIN Entities(k)} : k \in DOMAIN c}

\* A table built whatever the prefix.
newDiscoveryAnyPrefix(prefix, c) ==
  {<<entityTopic(prefix, r[1], Entities(r[1])[r[2]]),
     Marshal(normaliseConfig(Entities(r[1])[r[2]].config,
                             baseCfgOf(r[1], Entities(r[1])[r[2]])))>> :
     r \in EntityRefs(c)}

\* newDiscovery: the announcement table, as the set of its (topic, config)
\* pairs; it is empty when the prefix is.  The names of the entities of one
\* entry are distinct, so no two of its topics coincide.
newDiscovery(prefix, c) ==
  IF Len(prefix) > 0
    THEN {<<entityTopic(prefix, r[1], Entities(r[1])[r[2]]),
            Marshal(normaliseConfig(Entities(r[1])[r[2]].config,
                                    baseCfgOf(r[1], Entities(r[1])[r[2]])))>> :
            r \in EntityRefs(c)}
    ELSE {}

\* The instances after newDiscovery: normaliseConfig has written into the
\* maps of those that ss holds.
Normalised(prefix) ==
  [i \in DOMAIN insts |->
     IF Len(prefix) > 0 /\ \E k \in Keys : ss[k] = i
       THEN [insts[i] EXCEPT !.config =
               [j \in DOMAIN @ |->
                  [@[j] EXCEPT !.config =
                     normaliseConfig(@, baseCfgOf(insts[i].name, insts[i].config[j]))]]]
       ELSE insts[i]]

\* A step of the reconnect loop's record of the connect event in hand.
Logged(rec) == [rl EXCEPT !.log = Append(@, rec)]

\* A loop over mm that passes over the names without a factory.
MainModuleSkipping ==
  /\ mpc.pc = "modules" /\ mpc.i <= Len(cfg.mm)
  /\ LET modName == cfg.mm[mpc.i]
     IN  IF modName \notin Registered
           THEN /\ mpc' = [mpc EXCEPT !.i = @ + 1]
                /\ UNCHANGED <<insts, ss>>
           ELSE /\ insts' = Append(insts, [name |-> modName, closes |-> 0,
                                        config |-> Config(modName)])
                /\ ss' = [k \in Keys \cup {modName} |->
                            IF k = modName THEN Len(insts) + 1 ELSE ss[k]]
                /\ mpc' = [mpc EXCEPT !.i = @ + 1]
  /\ UNCHANGED <<moduleVars, cfg, disco, mdone, connect, mc, rl, bh, dlim>>

\* for _, modName := range mm: an unregistered name ends the process in
\* log.Fatalf; otherwise the factory builds an instance, stored under its
\* name, and its Close is deferred.
MainModule ==
  /\ mpc.pc = "modules" /\ mpc.i <= Len(cfg.mm)
  /\ LET modName == cfg.mm[mpc.i]
     IN  IF modName \notin Registered
           THEN /\ mpc' = [mpc EXCEPT !.pc = "fatal"]
                /\ UNCHANGED <<insts, ss>>
           ELSE /\ insts' = Append(insts, [name |-> modName, closes |-> 0,
                                        config |-> Config(modName)])
                /\ ss' = [k \in Keys \cup {modName} |->
                            IF k = modName THEN Len(insts) + 1 ELSE ss[k]]
                /\ mpc' = [mpc EXCEPT !.i = @ + 1]
  /\ UNCHANGED <<moduleVars, cfg, disco, mdone, connect, mc, rl, bh, dlim>>

\* connect(mc, done), first part: mc.Connect() starts an attempt.
MainConnect ==
  /\ \/ mpc.pc = "modules" /\ mpc.i > Len(cfg.mm)
     \/ mpc.pc = "retry"
  /\ mpc' = [mpc EXCEPT !.pc = "select"]
  /\ mc' = [mc EXCEPT !.tok = "pending"]
  /\ UNCHANGED <<moduleVars, cfg, insts, ss, disco, mdone, connect, rl, bh, dlim>>

\* A handler with a default case in its select: the event is given up
\* when the loop is not at its receive.
OnConnectNonBlocking ==
  connect' = IF rl.pc = "select" /\ ~mdone THEN connect + 1 ELSE connect

\* The transport runs the on-connect handler in a goroutine of its own:
\* select { case connect <- 0: case <-done: }.  The handler returns at once
\* if done is closed and otherwise waits on connect for the loop.
OnConnect ==
  connect' = IF mdone THEN connect ELSE connect + 1

\* The attempt succeeds: the connection is up, the on-connect handler runs
\* and the token completes without error.
TransportUp ==
  /\ Running /\ mc.tok = "pending" /\ mc.link # "closed" /\ dlim.connects > 0
  /\ dlim' = [dlim EXCEPT !.connects = @ - 1]
  /\ mc' = [mc EXCEPT !.tok = "ok", !.link = "up", !.events = @ + 1]
  /\ OnConnect
  /\ UNCHANGED <<moduleVars, cfg, mpc, insts, ss, disco, mdone, rl, bh>>

\* The attempt fails: the token completes with an error.
TransportFail ==
  /\ Running /\ mc.tok = "pending" /\ dlim.fails > 0
  /\ dlim' = [dlim EXCEPT !.fails = @ - 1]
  /\ mc' = [mc EXCEPT !.tok = "err"]
  /\ UNCHANGED <<moduleVars, cfg, mpc, insts, ss, disco, mdone, connect, rl, bh>>

\* The connection is lost, and with it the session's subscriptions; the
\* client reconnects by itself.
LinkLost ==
  /\ Running /\ mc.link = "up" /\ dlim.connects > 0
  /\ mc' = [mc EXCEPT !.link = "lost", !.armed = 0]
  /\ UNCHANGED <<moduleVars, cfg, mpc, insts, ss, disco, mdone, connect, rl, bh,
                 dlim>>

\* The client has reconnected and runs the on-connect handler again.
LinkUp ==
  /\ Running /\ mc.link = "lost" /\ dlim.connects > 0
  /\ dlim' = [dlim EXCEPT !.connects = @ - 1]
  /\ mc' = [mc EXCEPT !.link = "up", !.events = @ + 1]
  /\ OnConnect
  /\ UNCHANGED <<moduleVars, cfg, mpc, insts, ss, disco, mdone, rl, bh>>

\* A select in which a connect error ends the process.
MainSelectFatal ==
  /\ mpc.pc = "select"
  /\ \/ mc.tok = "ok" /\ mpc' = [mpc EXCEPT !.pc = "disco"]
     \/ mc.tok = "err" /\ mpc' = [mpc EXCEPT !.pc = "fatal"]
     \/ mdone /\ mpc' = [mpc EXCEPT !.pc = "disco"]
  /\ UNCHANGED <<moduleVars, cfg, insts, ss, disco, mdone, connect, mc, rl, bh,
                 dlim>>

\* connect(mc, done), second part: select on the token and on done.  An
\* error sends initialConnect to its retry ticker; success or a closed done
\* return from it.
MainSelect ==
  /\ mpc.pc = "select"
  /\ \/ mc.tok = "ok" /\ mpc' = [mpc EXCEPT !.pc = "disco"]
     \/ mc.tok = "err" /\ mpc' = [mpc EXCEPT !.pc = "retry"]
     \/ mdone /\ mpc' = [mpc EXCEPT !.pc = "disco"]
  /\ UNCHANGED <<moduleVars, cfg, insts, ss, disco, mdone, connect, mc, rl, bh,
                 dlim>>

\* defer mc.Disconnect(0); newDiscovery, which ends the process in
\* log.Fatalf when discovery is on and no MAC address is found, and which
\* writes the defaults into the entity maps the modules hold; go func()
\* starts the reconnect loop; main blocks in <-done.
MainDiscovery ==
  /\ mpc.pc = "disco"
  /\ IF Len(cfg.prefix) > 0 /\ ~cfg.macOk
       THEN /\ mpc' = [mpc EXCEPT !.pc = "fatal"]
            /\ UNCHANGED <<disco, insts, rl, bh>>
       ELSE /\ disco' = newDiscovery(cfg.prefix, ss)
            /\ insts' = Normalised(cfg.prefix)
            /\ mpc' = [mpc EXCEPT !.pc = "wait"]
            /\ rl' = [rl EXCEPT !.pc = "select"]
            /\ bh' = [bh EXCEPT !.pc = "idle"]
  /\ UNCHANGED <<moduleVars, cfg, ss, mdone, connect, mc, dlim>>

\* newDiscovery applied once more to the same collection and configuration.
Rebuild ==
  /\ mpc.pc = "wait" /\ dlim.builds > 0
  /\ dlim' = [dlim EXCEPT !.builds = @ - 1]
  /\ disco' = newDiscovery(cfg.prefix, ss)
  /\ insts' = Normalised(cfg.prefix)
  /\ UNCHANGED <<moduleVars, cfg, mpc, ss, mdone, connect, mc, rl, bh>>

\* A termination signal: the signal goroutine closes done.  Closing it
\* releases every on-connect handler parked on connect.
Signal ==
  /\ Running /\ ~mdone
  /\ mdone' = TRUE
  /\ connect' = 0
  /\ UNCHANGED <<moduleVars, cfg, mpc, insts, ss, disco, mc, rl, bh, dlim>>

\* The reconnect loop's select with done closed: case <-done: return.
LoopDone ==
  /\ Running /\ rl.pc = "select" /\ mdone
  /\ rl' = [rl EXCEPT !.pc = "returned"]
  /\ UNCHANGED <<moduleVars, cfg, mpc, insts, ss, disco, mdone, connect, mc,
                 bh, dlim>>

\* The reconnect loop's select with a handler waiting on connect and done
\* open: case <-connect.
LoopRecv ==
  /\ Running /\ rl.pc = "select" /\ ~mdone /\ connect > 0
  /\ connect' = connect - 1
  /\ rl' = [rl EXCEPT !.pc = "advertise", !.n = @ + 1, !.log = <<>>]
  /\ UNCHANGED <<moduleVars, cfg, mpc, insts, ss, disco, mdone, mc, bh, dlim>>

\* disco.advertise(mc): every announcement of the table is published.
LoopAdvertise ==
  /\ Running /\ rl.pc = "advertise"
  /\ rl' = [Logged([op |-> "advertise", key |-> "", by |-> "loop",
                    t |-> disco])
              EXCEPT !.pc = "sync", !.todo = Keys]
  /\ UNCHANGED <<moduleVars, cfg, mpc, insts, ss, disco, mdone, connect, mc,
                 bh, dlim>>

\* What Sync of the entry under modName does that the daemon sees:
\* dunnart.Sync stores the handle and calls its own Publish.
SyncSteps(modName) ==
  <<[op |-> "Sync", key |-> modName, by |-> "loop", t |-> Topic(modName)]>>
  \o (IF modName = ""
        THEN <<[op |-> "Publish", key |-> "", by |-> "Sync", t |-> <<>>]>>
        ELSE <<>>)

\* for modName, s := range ss { s.Sync(mqttPubSub{mc, t}) }, in the order
\* the map iteration happens to take.
LoopSync(modName) ==
  /\ Running /\ rl.pc = "sync" /\ modName \in rl.todo
  /\ rl' = [rl EXCEPT !.log = @ \o SyncSteps(modName),
                      !.todo = @ \ {modName}]
  /\ UNCHANGED <<moduleVars, cfg, mpc, insts, ss, disco, mdone, connect, mc,
                 bh, dlim>>

\* mc.Subscribe(habmTopic, ...): the birth-message handler is registered.
LoopSubscribe ==
  /\ Running /\ rl.pc = "sync" /\ rl.todo = {}
  /\ rl' = [Logged([op |-> "Subscribe", key |-> "", by |-> "loop",
                    t |-> <<>>])
              EXCEPT !.pc = "sleep"]
  /\ mc' = [mc EXCEPT !.armed = 1]
  /\ UNCHANGED <<moduleVars, cfg, mpc, insts, ss, disco, mdone, connect, bh,
                 dlim>>

\* A loop that goes on to publish without the settle delay.
LoopSleepSkipped ==
  /\ Running /\ rl.pc = "sleep"
  /\ rl' = [rl EXCEPT !.pc = "publish", !.todo = Keys]
  /\ UNCHANGED <<moduleVars, cfg, mpc, insts, ss, disco, mdone, connect, mc,
                 bh, dlim>>

\* time.Sleep(sdelay)
LoopSleep ==
  /\ Running /\ rl.pc = "sleep"
  /\ rl' = [Logged([op |-> "Sleep", key |-> "", by |-> "loop", t |-> <<>>])
              EXCEPT !.pc = "publish", !.todo = Keys]
  /\ UNCHANGED <<moduleVars, cfg, mpc, insts, ss, disco, mdone, connect, mc,
                 bh, dlim>>

\* for _, s := range ss { s.Publish() }; after the last entry the loop is
\* back at its select.
LoopPublish(modName) ==
  /\ Running /\ rl.pc = "publish" /\ modName \in rl.todo
  /\ LET r == Logged([op |-> "Publish", key |-> modName, by |-> "loop",
                      t |-> <<>>])
     IN  IF rl.todo # {modName}
           THEN rl' = [r EXCEPT !.todo = @ \ {modName}]
           ELSE rl' = [r EXCEPT !.todo = {}, !.pc = "select"]
  /\ UNCHANGED <<moduleVars, cfg, mpc, insts, ss, disco, mdone, connect, mc,
                 bh, dlim>>

\* The handler with the birth signals it has seen counted.
Seen(b) == [bh EXCEPT !.online = IF b = "online" THEN @ + 1 ELSE @]

\* A handler that acts on every payload.
BirthMessageAnyPayload(b) ==
  /\ Running /\ mc.armed = 1 /\ mc.link = "up" /\ bh.pc = "idle"
  /\ dlim.births > 0
  /\ dlim' = [dlim EXCEPT !.births = @ - 1]
  /\ bh' = [Seen(b) EXCEPT !.pc = "sleep", !.adv = @ + 1, !.sent = disco,
                           !.pubs = {}]
  /\ UNCHANGED <<moduleVars, cfg, mpc, insts, ss, disco, mdone, connect, mc, rl>>

\* A message on the birth topic: the handler acts on the payload "online"
\* only, and starts with disco.advertise(mc).
BirthMessage(b) ==
  /\ Running /\ mc.armed = 1 /\ mc.link = "up" /\ bh.pc = "idle"
  /\ dlim.births > 0
  /\ dlim' = [dlim EXCEPT !.births = @ - 1]
  /\ bh' = IF b = "online"
             THEN [Seen(b) EXCEPT !.pc = "sleep", !.adv = @ + 1,
                                  !.sent = disco, !.pubs = {}]
             ELSE Seen(b)
  /\ UNCHANGED <<moduleVars, cfg, mpc, insts, ss, disco, mdone, connect, mc, rl>>

\* The handler's time.Sleep(sdelay).
BirthSleep ==
  /\ Running /\ bh.pc = "sleep"
  /\ bh' = [bh EXCEPT !.pc = "publish", !.todo = Keys]
  /\ UNCHANGED <<moduleVars, cfg, mpc, insts, ss, disco, mdone, connect, mc, rl,
                 dlim>>

\* The handler's for _, s := range ss { s.Publish() }.
BirthPublish(modName) ==
  /\ Running /\ bh.pc = "publish" /\ modName \in bh.todo
  /\ bh' = [bh EXCEPT !.pubs = @ \cup {modName},
                      !.todo = @ \ {modName},
                      !.pc = IF bh.todo = {modName} THEN "idle" ELSE @]
  /\ UNCHANGED <<moduleVars, cfg, mpc, insts, ss, disco, mdone, connect, mc, rl,
                 dlim>>

\* A main that defers mc.Disconnect(0) before it builds the modules, so
\* that it runs after their Close.
MainDisconnectLast ==
  /\ mpc.pc = "wait" /\ mdone
  /\ mpc' = [pc |-> "close", i |-> Len(insts)]
  /\ UNCHANGED <<moduleVars, cfg, insts, ss, disco, mdone, connect, mc, rl, bh,
                 dlim>>

\* <-done returns and main with it: the deferred calls run, last first.
\* mc.Disconnect(0) is the first of them.
MainDisconnect ==
  /\ mpc.pc = "wait" /\ mdone
  /\ mc' = [mc EXCEPT !.link = "closed"]
  /\ mpc' = [pc |-> "close", i |-> Len(insts)]
  /\ UNCHANGED <<moduleVars, cfg, insts, ss, disco, mdone, connect, rl, bh, dlim>>

\* Deferred calls that close the entries of ss instead of the instances.
MainCloseHeld ==
  /\ mpc.pc = "close"
  /\ IF mpc.i > 0
       THEN /\ insts' = IF \E k \in Keys : ss[k] = mpc.i
                          THEN [insts EXCEPT ![mpc.i].closes = @ + 1]
                          ELSE insts
            /\ mpc' = [mpc EXCEPT !.i = @ - 1]
       ELSE /\ mpc' = [mpc EXCEPT !.pc = "exited"]
            /\ UNCHANGED insts
  /\ UNCHANGED <<moduleVars, cfg, ss, disco, mdone, connect, mc, rl, bh, dlim>>

\* The deferred mod.Close() calls, in the reverse of the order the
\* instances were built in; after the last, main returns and the process
\* exits.
MainDeferredClose ==
  /\ mpc.pc = "close"
  /\ IF mpc.i > 0
       THEN /\ insts' = [insts EXCEPT ![mpc.i].closes = @ + 1]
            /\ mpc' = [mpc EXCEPT !.i = @ - 1]
       ELSE /\ mpc' = [mpc EXCEPT !.pc = "exited"]
            /\ UNCHANGED insts
  /\ UNCHANGED <<moduleVars, cfg, ss, disco, mdone, connect, mc, rl, bh, dlim>>

\* The daemon at the top of main, for every configuration within the
\* bounds; its modules stay opaque.
DaemonInit ==
  /\ Constructed("cpu", {}, 1,
                 [sync |-> 0, msgs |-> 0, close |-> 0, ticks |-> 0,
                  free |-> FALSE])
  /\ cfg \in [mm : SeqsUpTo(ModuleNames, MaxMods),
              prefix : {"", "homeassistant"}, macOk : BOOLEAN]
  /\ cfg.prefix = "" => cfg.macOk
  /\ mpc = [pc |-> "modules", i |-> 1]
  /\ insts = <<>>
  /\ ss = [k \in {""} |-> 0]
  /\ disco = {}
  /\ mdone = FALSE
  /\ connect = 0
  /\ mc = [tok |-> "none", link |-> "new", armed |-> 0, events |-> 0]
  /\ rl = [pc |-> "none", todo |-> {}, n |-> 0, log |-> <<>>]
  /\ bh = [pc |-> "none", todo |-> {}, online |-> 0, adv |-> 0, sent |-> {},
          pubs |-> {}]
  /\ dlim = [fails |-> MaxFails, connects |-> MaxConnects,
             births |-> MaxBirths]

\* main, the transport, the signal and the reconnect loop.
DaemonNext ==
  \/ MainModule \/ MainConnect \/ MainSelect \/ MainDiscovery
  \/ TransportUp \/ TransportFail \/ LinkLost \/ LinkUp
  \/ Signal
  \/ LoopRecv \/ LoopDone \/ LoopAdvertise \/ LoopSubscribe \/ LoopSleep
  \/ \E modName \in ModuleNames \cup {""} :
       LoopSync(modName) \/ LoopPublish(modName)
  \/ MainDisconnect \/ MainDeferredClose

\* The daemon while nothing arrives on the birth topic.
DaemonSpec == DaemonInit /\ [][DaemonNext]_vars

\* The messages on the birth topic and their handler.
BirthNext ==
  \/ \E b \in BirthPayloads : BirthMessage(b)
  \/ BirthSleep
  \/ \E modName \in ModuleNames \cup {""} : BirthPublish(modName)

\* The daemon with the cpu and mem modules and discovery on.
BirthInit ==
  /\ DaemonInit
  /\ cfg.mm = <<"cpu", "mem">> /\ cfg.prefix # "" /\ cfg.macOk

\* That daemon with birth messages.
BirthSpec == BirthInit /\ [][DaemonNext \/ BirthNext]_vars

\* The daemon with the cpu and mem modules and a configuration newDiscovery
\* accepts.
RetryInit ==
  /\ DaemonInit
  /\ cfg.mm = <<"cpu", "mem">> /\ cfg.macOk

\* main and the reconnect loop are goroutines the scheduler keeps running;
\* the transport and the signal are the environment's.
RetryFair ==
  /\ WF_vars(MainModule) /\ WF_vars(MainConnect) /\ WF_vars(MainSelect)
  /\ WF_vars(MainDiscovery)
  /\ WF_vars(LoopRecv) /\ WF_vars(LoopAdvertise) /\ WF_vars(LoopSubscribe)
  /\ WF_vars(LoopSleep)
  /\ \A modName \in ModuleNames \cup {""} :
       WF_vars(LoopSync(modName)) /\ WF_vars(LoopPublish(modName))

RetrySpec == RetryInit /\ [][DaemonNext]_vars /\ RetryFair

-----------------------------------------------------------------------------
(* newDiscovery and normaliseConfig on every entity configuration within   *)
(* the bounds.                                                             *)

MaxEnts == 2

EntityNames == {"A", "B"}
EntityClasses == {"sensor", "binary_sensor"}

\* The keys with a default that an entity may bring itself.
OwnKeys == {"object_id", "unique_id", "availability", "availability_topic"}

\* The value an entity brings for key k.
OwnValue(k) == IF k = "object_id" THEN <<"{{.NodeId}}", "_own">> ELSE <<"own ", k>>

\* The entity configurations: a name, a class, and a map with a name, a
\* state_topic that is "~" or below it, and any of the keys above.
EntityConfigs ==
  {[name |-> n, class |-> c,
    config |-> [k \in {"name", "state_topic"} \cup S |->
                  CASE k = "name" -> <<n>>
                    [] k = "state_topic" -> st
                    [] OTHER -> OwnValue(k)]] :
     n \in EntityNames, c \in EntityClasses,
     st \in {Tilde, <<"~/m">>}, S \in SUBSET OwnKeys}

\* main has built one module with the entities q, has connected, and is
\* about to call newDiscovery; the first on-connect handler is waiting.
DiscoInit ==
  /\ Constructed("cpu", {}, 1,
                 [sync |-> 0, msgs |-> 0, close |-> 0, ticks |-> 0,
                  free |-> FALSE])
  /\ \E q \in SeqsUpTo(EntityConfigs, MaxEnts) :
       /\ \A i, j \in DOMAIN q : q[i].name = q[j].name => i = j
       /\ cfg \in [mm : {<<"cpu">>}, prefix : {"", "homeassistant"},
                   macOk : {TRUE}, config : {q}]
       /\ insts = <<[name |-> "cpu", closes |-> 0, config |-> q]>>
  /\ mpc = [pc |-> "disco", i |-> 2]
  /\ ss = ("" :> 0 @@ "cpu" :> 1)
  /\ disco = {}
  /\ mdone = FALSE
  /\ connect = 1
  /\ mc = [tok |-> "ok", link |-> "up", armed |-> 0, events |-> 1]
  /\ rl = [pc |-> "none", todo |-> {}, n |-> 0, log |-> <<>>]
  /\ bh = [pc |-> "none", todo |-> {}, online |-> 0, adv |-> 0, sent |-> {},
          pubs |-> {}]
  /\ dlim = [fails |-> 0, connects |-> 0, births |-> 0, builds |-> 1]

DiscoNext == MainDiscovery \/ Rebuild \/ LoopRecv \/ LoopAdvertise

DiscoSpec == DiscoInit /\ [][DiscoNext]_vars

-----------------------------------------------------------------------------
(* Properties of one Poller (Spec).                                        *)

\* C1: on any one Poller at most one invocation of the callback is in
\* progress at any time, and a request the dispatch loop has received is
\* started only when no invocation is in progress.
C1_OneInvocationAtATime ==
  \A s \in Sensors :
    /\ Cardinality(invs[s]) <= 1
    /\ dpc[s] = "call" => invs[s] = {}

\* An invocation is in progress while two senders wait on p.refresh.
C1_CallersWaitForCallback ==
  invs["s1"] # {} /\ Len(sendq["s1"]) >= 2

\* C2: once Close has returned (p.done is closed) no invocation of the
\* callback begins.
C2_NoInvocationBeginsAfterClose ==
  [][\A s \in Sensors : done[s] => invs'[s] \subseteq invs[s]]_vars

\* C3: on a closed Poller no caller of Refresh or UpdatePeriod is parked
\* on p.refresh: whoever was parked at the close has been released, and a
\* caller that stands at its select can take the case <-p.done, whatever
\* the dispatch loop is doing.
C3_NoCallerParkedAfterClose ==
  \A s \in Sensors :
    done[s] =>
      /\ sendq[s] = <<>>
      /\ ~(conn.pc = "parked" /\ ConnS = s)
      /\ ~(sub.pc = "parked" /\ sub.s = s)
      /\ \A id \in {"conn", "sub"} :
           (Alive /\ SenderAt(id, s)) => ENABLED SelectDone(id, s)

\* The Refresh(true) of a Sync has returned on the closed Poller without
\* having been accepted, while a callback is still running.
C3_RefreshReturnedOnClosed ==
  /\ done["s1"] /\ invs["s1"] # {}
  /\ conn.pc = "sub1" /\ hist.acc["s1"]["sync"] < conn.h

\* The rqd handler is in Refresh(true) on the Poller of s and the request
\* has not been accepted yet.
RqdCalled(s) == sub.op = "rqd" /\ sub.s = s /\ sub.pc \in {"select", "parked"}

\* The dispatch loop starts the invocation of a tick's request.
TickStarts(s) ==
  dpc[s] = "call" /\ dcur[s].tag = "tick" /\ dpc'[s] = "wait"

\* 1 while the dispatch loop has received a request of this origin and
\* has not started its invocation yet.
Pending(s, tag) == IF dpc[s] = "call" /\ dcur[s].tag = tag THEN 1 ELSE 0

\* The invocation the dispatch loop starts next is that of the request it
\* has received.
StartsReceived(s, tag) ==
  (dpc[s] = "call" /\ dcur[s].tag = tag /\ invs'[s] # invs[s]) =>
    invs'[s] = {[tag |-> tag, forced |-> dcur[s].forced, stage |-> "run"]}

\* C4 as stated: between the call of Refresh(true) and the start of its
\* forced invocation no tick-generated invocation starts.
C4_NoTickBetweenCallAndForced ==
  [][\A s \in Sensors : RqdCalled(s) => ~TickStarts(s)]_vars

\* C4, amended: a Refresh(true) that returns on an open Poller has been
\* accepted; every accepted Refresh(true) is started exactly once, with
\* forced = true, and is the next invocation to start after its
\* acceptance.
C4_ForcedOncePerAcceptedRefresh ==
  /\ [](\A s \in Sensors :
          /\ hist.acc[s]["rqd"] = hist.started[s]["rqd"] + Pending(s, "rqd")
          /\ \A i \in invs[s] : i.tag = "rqd" => i.forced
          /\ Pending(s, "rqd") = 1 => dcur[s].forced)
  /\ [][\A s \in Sensors :
          /\ (RqdCalled(s) /\ ~RqdCalled(s)' /\ ~done'[s]) =>
               hist'.acc[s]["rqd"] = hist.acc[s]["rqd"] + 1
          /\ StartsReceived(s, "rqd")]_vars

\* The forced invocation of an rqd message is running.
C4_ForcedRunning ==
  \E i \in invs["s1"] : i.tag = "rqd" /\ i.forced

\* C5: UpdatePeriod(d) on an open Poller resets the ticker to d once its
\* request has been accepted: the reset finds the ticker and takes d.
C5_ResetTakesNewPeriod ==
  panic \notin {"nil Ticker", "non-positive interval for Ticker.Reset"}

\* The reconnect-handling task is in Sync on sensor s and the Refresh(true)
\* of that Sync has not been accepted yet.
SyncCalled(s) == conn.pc \in {"bind", "refresh", "parked"} /\ ConnS = s

\* C6 as stated: between the call of Sync and the start of its forced
\* invocation no tick-generated invocation starts.
C6_NoTickBetweenSyncAndForced ==
  [][\A s \in Sensors : SyncCalled(s) => ~TickStarts(s)]_vars

\* C6, amended: on an open sensor the Refresh(true) of every Sync is
\* accepted before Sync goes on; every accepted one is started exactly
\* once, with forced = true, and is the next invocation to start after
\* its acceptance.
C6_ForcedOncePerSync ==
  /\ [](\A s \in Sensors :
          /\ hist.acc[s]["sync"] = hist.started[s]["sync"] + Pending(s, "sync")
          /\ \A i \in invs[s] : i.tag = "sync" => i.forced
          /\ Pending(s, "sync") = 1 => dcur[s].forced
          /\ (exists[s] /\ ~done[s] /\ ConnS = s) =>
               hist.acc[s]["sync"] = IF SyncCalled(s) THEN conn.h - 1 ELSE conn.h)
  /\ [][\A s \in Sensors : StartsReceived(s, "sync")]_vars

\* The forced invocation of the second Sync is running while that Sync
\* goes on to publish the period.
C6_SyncForcedRunning ==
  /\ conn.pc = "pub" /\ conn.h = 2
  /\ \E i \in invs["s1"] : i.tag = "sync" /\ i.forced

C11_PeriodKeptOnClosedPoller ==
  [][\A s \in Sensors : done[s] => period'[s] = period[s]]_vars

\* C14: a payload on <topic>/rqd/poll_period that is no duration changes
\* nothing: the period, the ticker, the requests to the dispatch loop, the
\* invocations and what has been published stay as they are.
C14_UnparseablePayloadIgnored ==
  [][hist'.rejected # hist.rejected =>
       /\ UNCHANGED <<period, ticker, sendq, dpc, dcur, invs, tpc, ps, subs,
                      sub, conn, done, panic>>
       /\ hist'.pp = hist.pp /\ hist'.spub = hist.spub
       /\ hist'.acc = hist.acc /\ hist'.started = hist.started]_vars

\* An open, synced sensor has received a payload that is no duration.
C14_RejectedOnOpenSensor ==
  /\ hist.rejected > 0 /\ ~done["s1"] /\ ticker["s1"].made
  /\ sub.pc = "idle" /\ panic = "none"

\* C15: a duration d received on <topic>/rqd/poll_period by an open,
\* synced sensor is stored as the period and then published: once the
\* request of UpdatePeriod has been accepted the handler gets through the
\* ticker reset to its Publish.
C15_UpdateReachesPublish ==
  (sub.op = "upd" /\ sub.pc = "reset" /\ ticker[sub.s].made) =>
    panic # "non-positive interval for Ticker.Reset"

\* C16: of the messages an open, synced sensor has received on
\* <topic>/rqd, each one but the one whose handler is still in Refresh has
\* been accepted by the dispatch loop, and each accepted one has been
\* started once, with forced = true, or is the request the loop starts
\* next.
C16_ForcedOncePerRqdMessage ==
  \A s \in Sensors :
    /\ hist.started[s]["rqd"] <= hist.acc[s]["rqd"]
    /\ hist.acc[s]["rqd"] <= hist.rqd[s]
    /\ hist.acc[s]["rqd"] - hist.started[s]["rqd"] = Pending(s, "rqd")
    /\ (exists[s] /\ ~done[s]) =>
         hist.rqd[s] - hist.acc[s]["rqd"] = IF RqdCalled(s) THEN 1 ELSE 0
    /\ (dpc[s] = "call" /\ dcur[s].tag = "rqd") => dcur[s].forced
    /\ \A i \in invs[s] : i.tag = "rqd" => i.forced

\* The forced invocation of the one message received on <topic>/rqd has
\* run and returned.
C16_RqdServed ==
  /\ hist.rqd["s1"] = 1 /\ hist.started["s1"]["rqd"] = 1
  /\ sub.pc = "idle" /\ invs["s1"] = {} /\ ~done["s1"] /\ panic = "none"

\* C10: a second Close on the same Poller does not panic.
C10_SecondCloseDoesNotPanic ==
  panic # "close of closed channel"

-----------------------------------------------------------------------------
(* Properties of the modules (ModSpec).                                    *)

\* C8: a refresh callback that publishes before the module's first Sync
\* publishes on a no-op stub and so does not fail.
C8_RefreshBeforeFirstSyncDoesNotFail ==
  conn.h = 0 => panic # "nil PubSub"

\* C12: no operation of PolledSensor fails on a nil sensor.
C12_NilSensorOperationsDoNotFail ==
  panic # "nil PolledSensor"

\* C13: Sync and Close of a module pass over a sub-sensor it does not
\* have: they do not fail, and nothing is bound, subscribed, published,
\* requested or closed for it.
C13_AbsentSensorUntouched ==
  \A s \in Sensors :
    Absent(s) =>
      /\ ps[s] = newPs(kind) /\ ~done[s]
      /\ dpc[s] = "none" /\ tpc[s] = "none"
      /\ sendq[s] = <<>> /\ invs[s] = {}
      /\ \A e \in subs : e[2] # s
      /\ hist.pp[s] = NoPub /\ hist.spub[s] = NoHandle
      /\ \A g \in CountedTags : hist.acc[s][g] = 0
      /\ panic # "nil PolledSensor"

\* wan without one of its sub-sensors has been synced and closed.
C13_WanSyncedAndClosed ==
  /\ kind = "wan" /\ \E s \in Sensors : Absent(s)
  /\ conn.pc = "idle" /\ conn.h = 1 /\ main.n = 1 /\ main.i = 0
  /\ panic = "none"

\* The modules that hold a collection of child sensors.
Composite == {"fs", "net", "cmd"}

\* C9: once the Close of a composite module has returned, the dispatch
\* loop of none of its children accepts the request of another tick, so
\* no child callback is invoked beyond those already accepted or running.
C9_NoChildRefreshAfterClose ==
  [][(kind \in Composite /\ main.n > 0) =>
       \A s \in Sensors :
         (dpc'[s] = "call" /\ dcur'[s].tag = "tick") => dpc[s] = "call"]_vars

-----------------------------------------------------------------------------
(* Properties of the daemon (DaemonSpec).                                  *)

\* The positions in the loop's record of the connect event in hand at which
\* operation op was applied to the entry under k.
LogAt(op, k) ==
  {i \in DOMAIN rl.log : rl.log[i].op = op /\ rl.log[i].key = k}

\* The positions of the record at which operation op was applied at all.
LogOf(op) == {i \in DOMAIN rl.log : rl.log[i].op = op}

\* The Sync pass of the connect event in hand is over.
SyncPassOver ==
  \/ rl.pc \in {"sleep", "publish"}
  \/ rl.pc \in {"select", "returned"} /\ rl.n > 0

\* C17: while done is open every connect event of the transport has been
\* taken up by the reconnect loop or waits for it; in the handling of one
\* connect event Sync is called at most once on each entry of ss, exactly
\* once by the end of the Sync pass, and the handle's topic is baseTopic
\* followed by the module's name for a named module and baseTopic alone
\* for the daemon's own entry.
C17_SyncOncePerEntryPerConnect ==
  /\ ~mdone => mc.events = rl.n + connect
  /\ rl.n <= mc.events
  /\ \A i \in DOMAIN rl.log : rl.log[i].key \in Keys
  /\ \A k \in Keys :
       /\ Cardinality(LogAt("Sync", k)) <= 1
       /\ SyncPassOver => Cardinality(LogAt("Sync", k)) = 1
       /\ rl.pc = "sync" => (LogAt("Sync", k) = {} <=> k \in rl.todo)
       /\ \A i \in LogAt("Sync", k) :
            rl.log[i].t = IF k = "" THEN <<"dunnart">> ELSE <<"dunnart", k>>

\* The second connect event's Sync pass over the daemon's entry and two
\* modules is over.
C17_SecondConnectSynced ==
  /\ rl.n = 2 /\ rl.pc = "sleep" /\ Keys = {"", "cpu", "mem"}

\* C18 as stated: in the handling of a connect event no Publish is called
\* on an entry before the settle delay.
C18_PublishOnlyAfterSettleDelay ==
  \A i \in LogOf("Publish") : \E j \in LogOf("Sleep") : j < i

\* C18: in the handling of one connect event the whole announcement table
\* is published first, every Sync comes after it and before the
\* subscription to the birth topic, which is made once every entry was
\* synced, the settle delay follows the subscription, and the loop's
\* Publish pass comes after the settle delay; the only Publish before it
\* is the one the daemon's own entry makes inside its Sync.
C18_HandlingOrder ==
  /\ \A i \in LogOf("advertise") : i = 1 /\ rl.log[i].t = disco
  /\ \A i \in LogOf("Sync") :
       /\ LogOf("advertise") = {1}
       /\ \A j \in LogOf("Subscribe") : i < j
  /\ \A j \in LogOf("Subscribe") :
       /\ Cardinality(LogOf("Subscribe")) = 1
       /\ \A k \in Keys : \E i \in LogAt("Sync", k) : i < j
  /\ \A j \in LogOf("Sleep") :
       /\ Cardinality(LogOf("Sleep")) = 1
       /\ j > 1 /\ rl.log[j - 1].op = "Subscribe"
  /\ \A i \in LogOf("Publish") :
       IF rl.log[i].by = "loop"
         THEN \E j \in LogOf("Sleep") : j < i
         ELSE /\ rl.log[i].key = "" /\ rl.log[i].by = "Sync"
              /\ i > 1 /\ rl.log[i - 1].op = "Sync" /\ rl.log[i - 1].key = ""
  /\ (rl.pc = "select" /\ rl.n > 0) =>
       \A k \in Keys : \E i \in LogAt("Publish", k) : rl.log[i].by = "loop"

\* A connect event was handled to its end for the daemon's entry and two
\* modules.
C18_ConnectHandled ==
  /\ rl.n = 1 /\ rl.pc = "select" /\ Keys = {"", "cpu", "mem"}
  /\ Len(rl.log) = 10

\* C19: Close is called on no instance before main returns from <-done and
\* on none twice; the deferred calls close the instances from the last
\* built to the first; and when main has returned, which it does only
\* once done was closed, every instance the factories built was closed
\* exactly once.
C19_EveryInstanceClosedOnce ==
  /\ \A i \in DOMAIN insts : insts[i].closes <= 1
  /\ mpc.pc \notin {"close", "exited"} =>
       \A i \in DOMAIN insts : insts[i].closes = 0
  /\ mpc.pc = "close" =>
       /\ mdone
       /\ \A i \in DOMAIN insts :
            insts[i].closes = IF i > mpc.i THEN 1 ELSE 0
  /\ mpc.pc = "exited" =>
       /\ mdone /\ Len(insts) = Len(cfg.mm)
       /\ \A i \in DOMAIN insts : insts[i].closes = 1

\* The daemon has shut down with two instances built under one name.
C19_ShutDownWithDuplicate ==
  /\ mpc.pc = "exited" /\ Len(insts) = 2
  /\ insts[1].name = insts[2].name

\* A name without a factory is listed in the configuration.
Unsupported == \E i \in DOMAIN cfg.mm : cfg.mm[i] \notin Registered

\* C20: with a module name in the configuration that has no factory, main
\* never gets past the loop over the module names: it starts no connect
\* attempt, the reconnect loop is never started, nothing is synced or
\* published, and every name before main's position has a factory.
C20_UnsupportedModuleAborts ==
  Unsupported =>
    /\ mpc.pc \in {"modules", "fatal"}
    /\ mc = [tok |-> "none", link |-> "new", armed |-> 0, events |-> 0]
    /\ rl = [pc |-> "none", todo |-> {}, n |-> 0, log |-> <<>>]
    /\ connect = 0 /\ disco = {}
    /\ \A j \in 1..(mpc.i - 1) : cfg.mm[j] \in Registered
    /\ mpc.pc = "modules" => mpc.i <= Len(cfg.mm)

\* The daemon has aborted on the second name, after building the module of
\* the first.
C20_AbortedAfterFirstModule ==
  /\ mpc.pc = "fatal" /\ Unsupported /\ Len(insts) = 1 /\ mpc.i = 2

\* C21: once the Sync pass of a connect event is over, every instance the
\* factories built is held in ss under some name and was synced in the pass.
C21_EveryInstanceHeldAndSynced ==
  SyncPassOver =>
    \A i \in DOMAIN insts :
      \E k \in Keys : ss[k] = i /\ LogAt("Sync", k) # {}

-----------------------------------------------------------------------------
(* Properties of the discovery table (DiscoSpec).                          *)

\* C22: with an empty discovery prefix the announcement table is empty
\* whatever the entities, and an advertise publishes nothing.
C22_NoPrefixNoAnnouncements ==
  cfg.prefix = "" =>
    /\ disco = {}
    /\ \A i \in LogOf("advertise") : rl.log[i].t = {}

\* advertise has run with the prefix empty and a module of two entities.
C22_AdvertisedWithoutPrefix ==
  /\ cfg.prefix = "" /\ LogOf("advertise") # {} /\ Len(cfg.config) = 2


\* The entities the entry under k was built with, before newDiscovery
\* wrote into their maps.
Supplied(k) == IF k = "" THEN Config("") ELSE cfg.config

\* The configs the table holds under topic tp.
ConfigsAt(tp) == {p[2] : p \in {x \in disco : x[1] = tp}}

\* The table was built with discovery on.
Built == mpc.pc = "wait" /\ cfg.prefix # ""

\* The topic and the id the entity e of the entry under k is to have.
IdOf(k, e) == IF k = "" THEN <<uid, e.name>> ELSE <<uid, k, e.name>>
TopicOf(k, e) == <<cfg.prefix, e.class, IdOf(k, e), "config">>

Defaulted(c) == <<"availability_topic", Tilde>> \in c

\* C25: the config announced for an entity holds availability_topic with
\* the default "~" exactly when the entity brought neither availability nor
\* availability_topic and its state_topic is not "~"; when its state_topic
\* is "~" the config holds no availability_topic at all.
C25_AvailabilityTopicDefault ==
  Built =>
    \A k \in Keys : \A j \in DOMAIN Supplied(k) :
      LET e == Supplied(k)[j]
          own == DOMAIN e.config
      IN  \A c \in ConfigsAt(TopicOf(k, e)) :
            /\ ("availability_topic" \notin own /\ "availability" \notin own)
                 => (Defaulted(c) <=> e.config["state_topic"] # Tilde)
            /\ ("availability_topic" \notin own /\ "availability" \in own)
                 => \A m \in c : m[1] # "availability_topic"
            /\ e.config["state_topic"] = Tilde
                 => \A m \in c : m[1] # "availability_topic"

\* The table was built for an entity on "~" and one below it, neither of
\* which brought availability or availability_topic.
C25_BuiltWithAndWithoutDefault ==
  /\ Built /\ Len(cfg.config) = 2
  /\ cfg.config[1].config["state_topic"] = Tilde
  /\ cfg.config[2].config["state_topic"] # Tilde
  /\ \A j \in {1, 2} :
       DOMAIN cfg.config[j].config \cap {"availability", "availability_topic"} = {}


\* C26: building the table again from the same collection and the same
\* configuration, after the first build wrote its defaults into the maps
\* the modules hold, gives the same set of (topic, config) pairs.
C26_RebuildGivesSameTable ==
  [][mpc.pc = "wait" => disco' = disco]_vars

\* The table was built a second time, from maps the first build had
\* written defaults into.
C26_BuiltTwice ==
  /\ Built /\ dlim.builds = 0 /\ disco # {}
  /\ Len(cfg.config) = 2 /\ insts[1].config # cfg.config

-----------------------------------------------------------------------------
(* Properties of the birth-message handler (BirthSpec).                    *)

\* C27: the handler has advertised once for every birth signal ("online")
\* seen on the birth topic and not at all for other payloads, each time
\* publishing the whole announcement table; its Publish pass over the
\* entries of ss comes after its settle delay and covers every entry; and
\* the handling of every connect event has advertised the table once.
C27_BirthSignalRepublishes ==
  /\ bh.adv = bh.online
  /\ bh.adv > 0 => bh.sent = disco
  /\ bh.online = 0 => bh.pc \in {"none", "idle"} /\ bh.pubs = {}
  /\ bh.pc = "sleep" => bh.pubs = {}
  /\ bh.pc = "publish" => bh.pubs = Keys \ bh.todo
  /\ (bh.pc = "idle" /\ bh.online > 0) => bh.pubs = Keys
  /\ rl.pc = "advertise" => rl.log = <<>>
  /\ (rl.n > 0 /\ rl.pc # "advertise") =>
       LogOf("advertise") = {1} /\ rl.log[1].t = disco

\* A birth signal was handled to its end: the table was advertised and
\* Publish was called on the daemon's entry and both modules.
C27_BirthSignalHandled ==
  /\ bh.online = 1 /\ bh.pc = "idle" /\ bh.pubs = {"", "cpu", "mem"}
  /\ bh.sent # {} /\ rl.n = 1

-----------------------------------------------------------------------------
(* Properties of the initial connect (RetrySpec).                          *)

\* C28: a failed connect attempt never ends the process; unless done is
\* closed main makes another attempt after it; and once an attempt has
\* succeeded the reconnect loop takes up the connect event, advertises and
\* syncs every entry of ss, unless done is closed first.
C28_ConnectRetriedUntilHandled ==
  /\ [](mpc.pc = "fatal" => mc.tok = "none")
  /\ [](mpc.pc = "retry" => mc.tok = "err")
  /\ (mc.tok = "err") ~> (mc.tok = "pending" \/ mdone)
  /\ (mc.tok = "ok") ~>
        (\/ mdone
         \/ /\ SyncPassOver /\ LogOf("advertise") = {1}
            /\ \A k \in Keys : LogAt("Sync", k) # {})

\* After a failed attempt a later one succeeded, and its connect event was
\* handled up to the end of the Sync pass.
C28_HandledAfterFailure ==
  /\ dlim.fails = 0 /\ mc.tok = "ok" /\ ~mdone
  /\ rl.n = 1 /\ rl.pc = "sleep" /\ Keys = {"", "cpu", "mem"}


-----------------------------------------------------------------------------
(* One Poller whose callback always returns, closed at most once, under    *)
(* fair scheduling of its goroutines.                                      *)

PollSync == 1
PollMsgs == 1

\* The link Poller of a wan module without an ip sensor: its callback
\* publishes on the module's handle, which is never nil.  The ticker
\* fires freely; the daemon closes the module once.
PollInit ==
  /\ NoDaemon
  /\ Constructed("wan", {"s1"}, 1,
                 [sync |-> PollSync, msgs |-> PollMsgs, close |-> 1,
                  ticks |-> 0, free |-> TRUE])

PollNext ==
  \/ CoreNext
  \/ \E s \in Sensors : MsgRqd(s)

\* The steps of the dispatch loop, of the tick loop and of a callback.
DispatchStep(s) ==
  DispatchRecv(s) \/ DispatchDone(s) \/ DispatchPark(s) \/ DispatchCall(s)

TickStep(s) ==
  \/ TickStart(s) \/ TickTake(s) \/ TickDone(s) \/ TickPark(s) \/ TickStop(s)
  \/ SelectSend("tick", s) \/ SelectDone("tick", s) \/ SelectPark("tick", s)

CallbackStep(s) == CallbackSkip(s) \/ CallbackPublish(s)

\* Every goroutine that can run does run, a callback that has started
\* returns, and the ticker keeps firing while it runs.
PollFair ==
  \A s \in Sensors :
    /\ WF_vars(DispatchStep(s)) /\ WF_vars(TickStep(s))
    /\ WF_vars(CallbackStep(s)) /\ WF_vars(TickFire(s))

PollSpec == PollInit /\ [][PollNext]_vars /\ PollFair

-----------------------------------------------------------------------------
(* Properties of the Poller under fair scheduling (PollSpec).              *)

\* The tick loop holds a tick it has taken from the ticker.
Holding(s) == tpc[s] \in {"inner", "innerParked"}

\* The dispatch loop has received the tick loop's value and not yet
\* called f.
TickHanded(s) ==
  dpc[s] = "call" /\ dcur[s] = [tag |-> "tick", forced |-> FALSE]

\* f(false) runs on behalf of a tick.
TickInvoked(s) ==
  \E i \in invs[s] : i.tag = "tick" /\ ~i.forced /\ i.stage = "run"

\* C29: while the Poller is open and its callback returns, every tick the
\* tick loop takes is handed to the dispatch loop unless the Poller is
\* closed first (the tick loop gives a tick up in no other way, and does
\* give it up), every tick handed over becomes an invocation of the
\* callback with forced = false, and such invocations keep occurring
\* until Close.
C29_EveryTickInvokesCallback ==
  /\ [][\A s \in Sensors :
          Holding(s) /\ ~Holding(s)' => TickHanded(s)' \/ done'[s]]_vars
  /\ \A s \in Sensors : Holding(s) ~> ~Holding(s)
  /\ \A s \in Sensors : TickHanded(s) ~> TickInvoked(s)
  /\ \A s \in Sensors : exists[s] => []<>(TickInvoked(s) \/ done[s])

\* A tick is running the callback while the next one waits behind a
\* Refresh caller for the dispatch loop.
C29_TickServedBehindRefresh ==
  /\ ~done["s1"] /\ TickInvoked("s1")
  /\ Len(sendq["s1"]) = 2 /\ sendq["s1"][2] = "tick"

\* C30: once the Poller is closed, the dispatch loop and the tick loop
\* both terminate, and the Close that finds the tick loop blocked handing
\* over a tick releases it.
C30_LoopsTerminateAfterClose ==
  /\ [][\A s \in Sensors :
          tpc[s] = "innerParked" /\ ~done[s] /\ done'[s] =>
            tpc'[s] = "stopping"]_vars
  /\ \A s \in Sensors :
       done[s] ~> (dpc[s] = "exit" /\ tpc[s] = "exit" /\ ~ticker[s].running)

\* Both loops have returned after a Close.
C30_BothLoopsExited ==
  /\ done["s1"] /\ dpc["s1"] = "exit" /\ tpc["s1"] = "exit"
  /\ hist.started["s1"]["sync"] = 1


-----------------------------------------------------------------------------
(* Refresh and the dispatch loop (PollSpec).                               *)

\* The reconnect-handling task is inside s.poller.Refresh(true) on sensor s.
InRefresh(s) == conn.pc \in {"refresh", "parked"} /\ ConnS = s

\* The dispatch loop of sensor s accepts a request in this step.
Accepts(s) == hist'.acc[s] # hist.acc[s]

\* C31: Refresh returns in the step in which the dispatch loop accepts
\* its request, before the callback has started, and leaves in no other
\* way while the Poller is open; a request is accepted only while no
\* callback of that Poller is running.
C31_RefreshReturnsOnAcceptance ==
  [][\A s \in Sensors :
       /\ Accepts(s) => invs[s] = {} /\ invs'[s] = {} /\ dpc'[s] = "call"
       /\ InRefresh(s) /\ hist'.acc[s]["sync"] # hist.acc[s]["sync"] =>
            conn'.pc = "sub1"
       /\ InRefresh(s) /\ ~InRefresh(s)' =>
            hist'.acc[s]["sync"] = hist.acc[s]["sync"] + 1 \/ done'[s]]_vars

\* Refresh has returned, Sync has gone on, and the invocation the request
\* triggered is still running.
C31_ReturnedWhileCallbackRuns ==
  /\ ~done["s1"] /\ conn.pc \in {"sub1", "pub"}
  /\ \E i \in invs["s1"] : i.tag = "sync" /\ i.forced /\ i.stage = "run"


-----------------------------------------------------------------------------
(* The refresh callbacks on their own: every module kind, called with      *)
(* every flag and every measurement.                                       *)

\* The callback of sensor s is called with the flag forced, measures cur,
\* and the read of the statistics fails or not.
RefreshCall(s, forced, cur, err) ==
  /\ exists[s]
  /\ LET r == Refresh(kind, s, forced, rf[s].content, cur, err) IN
       rf' = [rf EXCEPT ![s] =
                [content |-> r.content, called |-> TRUE, forced |-> forced,
                 prev |-> rf[s].content, cur |-> cur, err |-> err,
                 pub |-> r.pub]]
  /\ UNCHANGED <<daemonVars, kind, exists, period, done, sendq, dpc, dcur,
                 invs, tpc, ticker, ps, mps, subs, conn, sub, main, lim, hist,
                 panic>>

RefreshInit ==
  \E k \in Kinds : \E ex \in SUBSET Slots(k) :
    /\ NoDaemon
    /\ Mandatory(k) \subseteq ex /\ ex # {}
    /\ Constructed(k, ex, 1,
                   [sync |-> 0, msgs |-> 0, close |-> 0, ticks |-> 0,
                    free |-> FALSE])

RefreshNext ==
  \E s \in Sensors, forced \in BOOLEAN, cur \in Measured, err \in BOOLEAN :
    RefreshCall(s, forced, cur, err)

RefreshSpec == RefreshInit /\ [][RefreshNext]_vars

-----------------------------------------------------------------------------
(* Properties of the refresh callbacks (RefreshSpec).                      *)

\* C32: an unforced refresh that measured the content of the previous
\* refresh publishes nothing, and a refresh publishes only when the
\* content changed or it was forced.
C32_PublishOnlyOnChangeOrForced ==
  \A s \in Sensors :
    rf[s].called /\ rf[s].pub => rf[s].forced \/ rf[s].cur # rf[s].prev

\* C33: a forced refresh publishes the state message, also when the
\* content is unchanged.
C33_ForcedRefreshPublishes ==
  \A s \in Sensors : rf[s].called /\ rf[s].forced => rf[s].pub


-----------------------------------------------------------------------------
(* The handle a running callback publishes on (ModSpec).                   *)

\* C34: a callback reads the handle field when it publishes, so it
\* publishes on the handle bound when its invocation started exactly if
\* the field is not rebound while the invocation runs: for every
\* invocation that is running before and after a step, the handle its
\* Publish would use is the same before and after.
C34_RunningCallbackSeesOneHandle ==
  [][\A s \in Sensors : \A i \in invs[s] :
       i.stage = "run" /\ i \in invs'[s] /\ cbHandle(s) # NoHandle =>
         cbHandle(s)' = cbHandle(s)]_vars


-----------------------------------------------------------------------------
(* UpdatePeriod and the ticker (Spec).                                     *)

\* C35: whenever UpdatePeriod stands at p.t.Reset(p.period), the tick
\* loop has already created the ticker.
C35_ResetFindsTicker ==
  sub.pc = "reset" => ticker[sub.s].made


-----------------------------------------------------------------------------
(* Sync's Publish of the period in two steps: the argument s.poller.period *)
(* is read when the call is made, and the message goes out when            *)
(* mqttPubSub.Publish reaches the transport.                               *)

\* ps.Publish(s.topic+"/poll_period", s.poller.period): the argument is
\* evaluated.
SyncPublishRead ==
  /\ Alive /\ conn.pc = "pub"
  /\ conn' = [conn EXCEPT !.pc = "pubsend", !.v = period[ConnS]]
  /\ UNCHANGED <<daemonVars, rf,
                 kind, exists, period, done, sendq, dpc, dcur, invs, tpc,
                 ticker, ps, mps, subs, sub, main, lim, hist, panic>>

\* mqttPubSub.Publish sends the value it was given;
\* ps.Subscribe(s.topic+"/rqd/poll_period", s.SetPollPeriod)
SyncPublishSend ==
  /\ Alive /\ conn.pc = "pubsend"
  /\ hist' = [hist EXCEPT !.pp[ConnS] =
                [h |-> mqttPubSub(conn.h), val |-> conn.v, by |-> "Sync"]]
  /\ subs' = subs \cup {<<conn.h, ConnS, "rqd/poll_period">>}
  /\ conn' = ConnNext([conn EXCEPT !.cnt = @ + 1, !.v = 0])
  /\ UNCHANGED <<daemonVars, rf,
                 kind, exists, period, done, sendq, dpc, dcur, invs, tpc,
                 ticker, ps, mps, sub, main, lim, panic>>

\* One PolledSensor, as in Spec, with Sync's Publish in its two steps.
PeriodNext ==
  \/ \E s \in Sensors :
       \/ DispatchRecv(s) \/ DispatchDone(s) \/ DispatchPark(s) \/ DispatchCall(s)
       \/ TickStart(s) \/ TickFire(s) \/ TickTake(s) \/ TickDone(s)
       \/ TickPark(s) \/ TickStop(s)
       \/ CallbackSkip(s) \/ CallbackPublish(s)
       \/ \E id \in SenderIds : SelectSend(id, s) \/ SelectDone(id, s) \/ SelectPark(id, s)
  \/ MainClose \/ SensorClose
  \/ ModuleSync \/ SyncBind \/ SyncSubscribe \/ SyncPublishRead \/ SyncPublishSend
  \/ MsgNext

PeriodSpec == Init /\ [][PeriodNext]_vars

\* C36: for an open sensor, with no Sync and no poll-period message in
\* progress, the value last published to <topic>/poll_period is the
\* Poller's period.
C36_PublishedPeriodIsCurrent ==
  \A s \in Sensors :
    exists[s] /\ ~done[s] /\ Alive /\ conn.pc = "idle" /\ sub.pc = "idle"
      /\ hist.pp[s] # NoPub => hist.pp[s].val = period[s]


-----------------------------------------------------------------------------
(* The hand-over of connect events (RetrySpec).                            *)

\* The advertise-and-Sync sequence of the connect event in hand is
\* complete: one advertise, then one Sync of every entry.
SequenceDone ==
  /\ SyncPassOver /\ LogOf("advertise") = {1}
  /\ \A k \in Keys : Cardinality(LogAt("Sync", k)) = 1

\* C37: while done is open every on-connect handler that has run either
\* waits on connect or has been received by the loop, one sequence each;
\* the loop receives an event only at its select, after the sequence of
\* the event before is complete; closing done leaves no handler waiting;
\* and under fair scheduling every connect event, the first included, is
\* received and its advertise-and-Sync sequence completed, unless done is
\* closed.
C37_EveryConnectEventHandled ==
  /\ [](~mdone => mc.events = rl.n + connect)
  /\ [](mdone => connect = 0)
  /\ [][rl'.n # rl.n =>
          /\ rl'.n = rl.n + 1 /\ connect' = connect - 1
          /\ rl.pc = "select" /\ (rl.n > 0 => SequenceDone)]_vars
  /\ \A k \in 1..MaxConnects :
       /\ (mc.events >= k) ~> (mdone \/ rl.n >= k)
       /\ (rl.n = k /\ rl.pc = "advertise") ~>
            (mdone \/ (rl.n = k /\ SequenceDone))

\* The first handler ran before the loop was started and a second one
\* after a reconnection; both events have been handled to the end.
C37_BothEventsHandled ==
  /\ ~mdone /\ mc.events = 2 /\ connect = 0
  /\ rl.n = 2 /\ rl.pc = "select" /\ SequenceDone


-----------------------------------------------------------------------------
(* The wan module with its link and its ip sensor, under fair scheduling   *)
(* of its goroutines: the tickers fire, the daemon handles a connect       *)
(* event with Sync, and closes the module on its way out.                  *)

WanTicks == 1

WanInit ==
  /\ NoDaemon
  /\ Constructed("wan", {"s1", "s2"}, 1,
                 [sync |-> 1, msgs |-> 0, close |-> 1,
                  ticks |-> WanTicks, free |-> FALSE])

WanNext ==
  \/ CoreNext
  \/ \E s \in Sensors : CallbackReturn(s)

\* The steps of wan.RefreshLink from its Publish on: the Refresh of the ip
\* Poller and the return.
RelayStep(s) ==
  \/ SelectSend("cb", s) \/ SelectDone("cb", s) \/ SelectPark("cb", s)
  \/ CallbackReturn(s)

WanFair ==
  \A s \in Sensors :
    /\ WF_vars(DispatchStep(s)) /\ WF_vars(TickStep(s))
    /\ WF_vars(CallbackStep(s)) /\ WF_vars(RelayStep(s))

WanSpec == WanInit /\ [][WanNext]_vars /\ WanFair

-----------------------------------------------------------------------------
(* Properties of the wan module under fair scheduling (WanSpec).           *)

\* The link callback is inside w.ipPoller.poller.Refresh(false).
Relaying ==
  \E i \in invs["s1"] : i.stage \in {"relay", "relayParked"}

-----------------------------------------------------------------------------
(* The order of shutdown (DaemonSpec).                                     *)

\* Close has been called on instance i.
Closed(i) == insts[i].closes > 0

\* C39: Close has been called on a module only after the transport's
\* Disconnect; a module is closed only after every module built after it;
\* and while main runs its deferred calls the transport is disconnected and
\* the modules main has not come to yet are still open.
C39_DisconnectThenCloseInReverse ==
  /\ \A i \in DOMAIN insts : Closed(i) => mc.link = "closed"
  /\ \A i \in DOMAIN insts, j \in DOMAIN insts :
       i < j /\ Closed(i) => Closed(j)
  /\ mpc.pc = "close" =>
       /\ mc.link = "closed"
       /\ \A i \in DOMAIN insts : i <= mpc.i => ~Closed(i)

\* The transport is disconnected, the module built last is closed and the
\* one built first is still open.
C39_DisconnectedFirstModuleOpen ==
  /\ mpc.pc = "close" /\ mc.link = "closed" /\ mc.events > 0
  /\ Len(insts) = 2 /\ Closed(2) /\ ~Closed(1)
====
